---- MODULE Spec2Model ----
(***************************************************************************)
(* A model of the AI daily report generator (wenhaofree/aigptgod-collect): *)
(* the scheduled cycle of main.py, the feed crawler, the content           *)
(* processor, the report generator and the Notion publisher with its       *)
(* ledger file data/notion/notion.json.                                    *)
(*                                                                         *)
(* Conventions.  An article is a record.  A text whose only use in the     *)
(* code is its length is modelled by that length (summary_len).  A page of *)
(* the destination is the sequence of the ids of the articles whose block  *)
(* groups (heading, paragraph, image, bullet, divider) were appended to    *)
(* it, in order; its URL is its index in pages.  A Python exception that   *)
(* leaves an operation is the value Raised.                                *)
(***************************************************************************)
EXTENDS Integers, Sequences, FiniteSets, TLC

VARIABLES
    pc,            \* position of the process (run_scheduled / run / sync_report)
    mode,          \* "run": sync_report called by run; "direct": by another caller
    fileState,     \* notion.json: "absent", "json" (parseable) or "corrupt"
    fileIds,       \* the article_ids stored in notion.json when it is parseable
    storage,       \* condition of the file system: "ok", "unreadable", "unwritable"
    pages,         \* today's pages of the destination database
    report,        \* the Report handed to sync_report
    new_articles,  \* sync_report: the filtered articles
    parent_id,     \* _add_articles: index of the page written to (0: none)
    added_articles,\* _add_articles: ids whose blocks were built
    save_ids,      \* _save_synced_articles: its argument
    all_ids,       \* _save_synced_articles: the ids about to be dumped
    save_next,     \* where _save_synced_articles returns to
    ret,           \* what the last sync_report returned
    pre,           \* history: ledger and pages when sync_report was entered
    ledgerAtLoad,  \* history: ids persisted when sync_report loaded the ledger
    appended,      \* history: ids passed to blocks.children.append by this call
    remote,        \* history: remote operations this sync_report call issued
    faults,        \* history: remote operations that failed in this cycle or call
    tasks,         \* fetch_news: the task of each source
    all_articles,  \* fetch_news: the joined results
    articles,      \* run: what fetch_news returned
    processed_articles,  \* run: what process_articles returned
    lastOK,        \* history: the Report of the call that has just returned normally
    everPersisted, \* history: the ids a completed write has put into notion.json
    args,          \* a function examined on its own: its arguments
    result,        \* a function examined on its own: what it returned
    attempts,      \* _generate_summary: the completion calls made, in order
    clock          \* seconds passed while _generate_summary runs

vars == <<pc, mode, fileState, fileIds, storage, pages, report, new_articles,
          parent_id, added_articles, save_ids, all_ids, save_next, ret, pre,
          ledgerAtLoad, appended, remote, faults, tasks, all_articles, articles,
          processed_articles, lastOK, everPersisted, args, result, attempts,
          clock>>

(***************************************************************************)
(* Bounds of the model.                                                    *)
(***************************************************************************)
MaxReport == 2      \* articles in a Report handed to sync_report directly
MaxPages == 1       \* a call may start while at most this many pages exist
MaxBlocks == 2      \* a call may start while fewer block groups were appended
MaxDedup == 3       \* articles in an input of _deduplicate_articles on its own
MaxBatch == 2       \* articles in an input of process_articles on its own
MaxClock == 2       \* seconds the completion calls of one batch may take

(***************************************************************************)
(* Program constants.                                                      *)
(***************************************************************************)
MaxSummary == 2000  \* _add_articles skips an article with a longer summary

Ids == {"h1", "h2"}
\* What sync_report gave its caller: nothing yet, None, an exception, or the
\* URL of a page.
NoReturn == [kind |-> "none", page |-> 0]

None == [kind |-> "None", page |-> 0]

Raised == [kind |-> "raised", page |-> 0]

Url(p) == [kind |-> "url", page |-> p]

\* The articles a Report may hold: every id with a summary of the longest
\* accepted length and one character more.
ReportArticles == [id : Ids, summary_len : {MaxSummary, MaxSummary + 1}]

SeqsUpTo(S, n) == UNION {[1..k -> S] : k \in 0..n}

Range(s) == {s[i] : i \in 1..Len(s)}

IdsOf(arts) == {arts[i].id : i \in 1..Len(arts)}

IdSeq(arts) == [i \in 1..Len(arts) |-> arts[i].id]

RECURSIVE SumLen(_)
SumLen(ps) == IF ps = <<>> THEN 0 ELSE Len(Head(ps)) + SumLen(Tail(ps))

(***************************************************************************)
(* Texts.  A text the code searches is the sequence of its characters.  A  *)
(* character is written as itself; the lower case of a character that this *)
(* module cannot write is written by its code point, as in "U+0253".       *)
(***************************************************************************)
\* The characters str.lower changes, each with its lower case.
LowerMap ==
    LET pairs ==
            {<<"A", "a">>, <<"B", "b">>, <<"C", "c">>, <<"D", "d">>, <<"E", "e">>, <<"F", "f">>,
             <<"G", "g">>, <<"H", "h">>, <<"I", "i">>, <<"J", "j">>, <<"K", "k">>, <<"L", "l">>,
             <<"M", "m">>, <<"N", "n">>, <<"O", "o">>, <<"P", "p">>, <<"Q", "q">>, <<"R", "r">>,
             <<"S", "s">>, <<"T", "t">>, <<"U", "u">>, <<"V", "v">>, <<"W", "w">>, <<"X", "x">>,
             <<"Y", "y">>, <<"Z", "z">>, <<"À", "à">>, <<"Á", "á">>, <<"Â", "â">>, <<"Ã", "ã">>,
             <<"Ä", "ä">>, <<"Å", "å">>, <<"Æ", "æ">>, <<"Ç", "ç">>, <<"È", "è">>, <<"É", "é">>,
             <<"Ê", "ê">>, <<"Ë", "ë">>, <<"Ì", "ì">>, <<"Í", "í">>, <<"Î", "î">>, <<"Ï", "ï">>,
             <<"Ð", "ð">>, <<"Ñ", "ñ">>, <<"Ò", "ò">>, <<"Ó", "ó">>, <<"Ô", "ô">>, <<"Õ", "õ">>,
             <<"Ö", "ö">>, <<"Ø", "ø">>, <<"Ù", "ù">>, <<"Ú", "ú">>, <<"Û", "û">>, <<"Ü", "ü">>,
             <<"Ý", "ý">>, <<"Þ", "þ">>, <<"Ɓ", "U+0253">>, <<"Ƃ", "ƃ">>, <<"Ƅ", "ƅ">>, <<"Ɔ", "U+0254">>,
             <<"Ƈ", "ƈ">>, <<"Ɖ", "U+0256">>, <<"Ɗ", "U+0257">>, <<"Ƌ", "ƌ">>, <<"Ǝ", "ǝ">>, <<"Ə", "U+0259">>,
             <<"Ɛ", "U+025B">>, <<"Ƒ", "ƒ">>, <<"Ɠ", "U+0260">>, <<"Ɣ", "U+0263">>, <<"Ɩ", "U+0269">>, <<"Ɨ", "U+0268">>,
             <<"Ƙ", "ƙ">>, <<"Ɯ", "U+026F">>, <<"Ɲ", "U+0272">>, <<"Ɵ", "U+0275">>, <<"Ơ", "ơ">>, <<"Ƣ", "ƣ">>,
             <<"Ƥ", "ƥ">>, <<"Ʀ", "ʀ">>, <<"Ƨ", "ƨ">>, <<"Ʃ", "ʃ">>, <<"Ƭ", "ƭ">>, <<"Ʈ", "ʈ">>,
             <<"Ư", "ư">>, <<"Ʊ", "ʊ">>, <<"Ʋ", "ʋ">>, <<"Ƴ", "ƴ">>, <<"Ƶ", "ƶ">>, <<"Ʒ", "ʒ">>,
             <<"Ƹ", "ƹ">>, <<"Ƽ", "ƽ">>, <<"Ǆ", "ǆ">>, <<"ǅ", "ǆ">>, <<"Ǉ", "ǉ">>, <<"ǈ", "ǉ">>,
             <<"Ǌ", "ǌ">>, <<"ǋ", "ǌ">>, <<"Ǎ", "ǎ">>, <<"Ǐ", "ǐ">>, <<"Ǒ", "ǒ">>, <<"Ǔ", "ǔ">>,
             <<"Ǖ", "ǖ">>, <<"Ǘ", "ǘ">>, <<"Ǚ", "ǚ">>, <<"Ǜ", "ǜ">>, <<"Ǟ", "ǟ">>, <<"Ǡ", "ǡ">>,
             <<"Ǣ", "ǣ">>, <<"Ǥ", "ǥ">>, <<"Ǧ", "ǧ">>, <<"Ǩ", "ǩ">>, <<"Ǫ", "ǫ">>, <<"Ǭ", "ǭ">>,
             <<"Ǯ", "ǯ">>, <<"Ǳ", "ǳ">>, <<"ǲ", "ǳ">>, <<"Ǵ", "ǵ">>, <<"Ƕ", "ƕ">>, <<"Ƿ", "ƿ">>,
             <<"Ǹ", "ǹ">>, <<"Ǻ", "ǻ">>, <<"Ǽ", "ǽ">>, <<"Ǿ", "ǿ">>, <<"Ά", "ά">>, <<"Έ", "έ">>,
             <<"Ή", "ή">>, <<"Ί", "ί">>, <<"Ό", "ό">>, <<"Ύ", "ύ">>, <<"Ώ", "ώ">>, <<"Α", "α">>,
             <<"Β", "β">>, <<"Γ", "γ">>, <<"Δ", "δ">>, <<"Ε", "ε">>, <<"Ζ", "ζ">>, <<"Η", "η">>,
             <<"Θ", "θ">>, <<"Ι", "ι">>, <<"Κ", "κ">>, <<"Λ", "λ">>, <<"Μ", "μ">>, <<"Ν", "ν">>,
             <<"Ξ", "ξ">>, <<"Ο", "ο">>, <<"Π", "π">>, <<"Ρ", "ρ">>, <<"Σ", "σ">>, <<"Τ", "τ">>,
             <<"Υ", "υ">>, <<"Φ", "φ">>, <<"Χ", "χ">>, <<"Ψ", "ψ">>, <<"Ω", "ω">>, <<"Ϊ", "ϊ">>,
             <<"Ϋ", "ϋ">>, <<"Ϗ", "ϗ">>, <<"Ϙ", "ϙ">>, <<"Ϛ", "ϛ">>, <<"Ϝ", "ϝ">>, <<"Ϟ", "ϟ">>,
             <<"Ϡ", "ϡ">>, <<"Ϣ", "ϣ">>, <<"Ϥ", "ϥ">>, <<"Ϧ", "ϧ">>, <<"Ϩ", "ϩ">>, <<"Ϫ", "ϫ">>,
             <<"Ϭ", "ϭ">>, <<"Ϯ", "ϯ">>, <<"ϴ", "θ">>, <<"Ϸ", "ϸ">>, <<"Ϲ", "ϲ">>, <<"Ϻ", "ϻ">>,
             <<"Ͻ", "U+037B">>, <<"Ͼ", "U+037C">>, <<"Ͽ", "U+037D">>, <<"Ҁ", "ҁ">>, <<"Ҋ", "ҋ">>, <<"Ҍ", "ҍ">>,
             <<"Ҏ", "ҏ">>, <<"Ґ", "ґ">>, <<"Ғ", "ғ">>, <<"Ҕ", "ҕ">>, <<"Җ", "җ">>, <<"Ҙ", "ҙ">>,
             <<"Қ", "қ">>, <<"Ҝ", "ҝ">>, <<"Ҟ", "ҟ">>, <<"Ҡ", "ҡ">>, <<"Ң", "ң">>, <<"Ҥ", "ҥ">>,
             <<"Ҧ", "ҧ">>, <<"Ҩ", "ҩ">>, <<"Ҫ", "ҫ">>, <<"Ҭ", "ҭ">>, <<"Ү", "ү">>, <<"Ұ", "ұ">>,
             <<"Ҳ", "ҳ">>, <<"Ҵ", "ҵ">>, <<"Ҷ", "ҷ">>, <<"Ҹ", "ҹ">>, <<"Һ", "һ">>, <<"Ҽ", "ҽ">>,
             <<"Ҿ", "ҿ">>, <<"Ӏ", "ӏ">>, <<"Ӂ", "ӂ">>, <<"Ӄ", "ӄ">>, <<"Ӆ", "ӆ">>, <<"Ӈ", "ӈ">>,
             <<"Ӊ", "ӊ">>, <<"Ӌ", "ӌ">>, <<"Ӎ", "ӎ">>, <<"Ӑ", "ӑ">>, <<"Ӓ", "ӓ">>, <<"Ӕ", "ӕ">>,
             <<"Ӗ", "ӗ">>, <<"Ә", "ә">>, <<"Ӛ", "ӛ">>, <<"Ӝ", "ӝ">>, <<"Ӟ", "ӟ">>, <<"Ӡ", "ӡ">>,
             <<"Ӣ", "ӣ">>, <<"Ӥ", "ӥ">>, <<"Ӧ", "ӧ">>, <<"Ө", "ө">>, <<"Ӫ", "ӫ">>, <<"Ӭ", "ӭ">>,
             <<"Ӯ", "ӯ">>, <<"Ӱ", "ӱ">>, <<"Ӳ", "ӳ">>, <<"Ӵ", "ӵ">>, <<"Ӷ", "ӷ">>, <<"Ӹ", "ӹ">>,
             <<"Ӻ", "ӻ">>, <<"Ӽ", "ӽ">>, <<"Ӿ", "ӿ">>, <<"Ⴀ", "U+2D00">>, <<"Ⴁ", "U+2D01">>, <<"Ⴂ", "U+2D02">>,
             <<"Ⴃ", "U+2D03">>, <<"Ⴄ", "U+2D04">>, <<"Ⴅ", "U+2D05">>, <<"Ⴆ", "U+2D06">>, <<"Ⴇ", "U+2D07">>, <<"Ⴈ", "U+2D08">>,
             <<"Ⴉ", "U+2D09">>, <<"Ⴊ", "U+2D0A">>, <<"Ⴋ", "U+2D0B">>, <<"Ⴌ", "U+2D0C">>, <<"Ⴍ", "U+2D0D">>, <<"Ⴎ", "U+2D0E">>,
             <<"Ⴏ", "U+2D0F">>, <<"Ⴐ", "U+2D10">>, <<"Ⴑ", "U+2D11">>, <<"Ⴒ", "U+2D12">>, <<"Ⴓ", "U+2D13">>, <<"Ⴔ", "U+2D14">>,
             <<"Ⴕ", "U+2D15">>, <<"Ⴖ", "U+2D16">>, <<"Ⴗ", "U+2D17">>, <<"Ⴘ", "U+2D18">>, <<"Ⴙ", "U+2D19">>, <<"Ⴚ", "U+2D1A">>,
             <<"Ⴛ", "U+2D1B">>, <<"Ⴜ", "U+2D1C">>, <<"Ⴝ", "U+2D1D">>, <<"Ⴞ", "U+2D1E">>, <<"Ⴟ", "U+2D1F">>, <<"Ⴠ", "U+2D20">>,
             <<"Ⴡ", "U+2D21">>, <<"Ⴢ", "U+2D22">>, <<"Ⴣ", "U+2D23">>, <<"Ⴤ", "U+2D24">>, <<"Ⴥ", "U+2D25">>, <<"Ⴧ", "U+2D27">>,
             <<"Ⴭ", "U+2D2D">>, <<"Ꭰ", "U+AB70">>, <<"Ꭱ", "U+AB71">>, <<"Ꭲ", "U+AB72">>, <<"Ꭳ", "U+AB73">>, <<"Ꭴ", "U+AB74">>,
             <<"Ꭵ", "U+AB75">>, <<"Ꭶ", "U+AB76">>, <<"Ꭷ", "U+AB77">>, <<"Ꭸ", "U+AB78">>, <<"Ꭹ", "U+AB79">>, <<"Ꭺ", "U+AB7A">>,
             <<"Ꭻ", "U+AB7B">>, <<"Ꭼ", "U+AB7C">>, <<"Ꭽ", "U+AB7D">>, <<"Ꭾ", "U+AB7E">>, <<"Ꭿ", "U+AB7F">>, <<"Ꮀ", "ꮀ">>,
             <<"Ꮁ", "ꮁ">>, <<"Ꮂ", "ꮂ">>, <<"Ꮃ", "ꮃ">>, <<"Ꮄ", "ꮄ">>, <<"Ꮅ", "ꮅ">>, <<"Ꮆ", "ꮆ">>,
             <<"Ꮇ", "ꮇ">>, <<"Ꮈ", "ꮈ">>, <<"Ꮉ", "ꮉ">>, <<"Ꮊ", "ꮊ">>, <<"Ꮋ", "ꮋ">>, <<"Ꮌ", "ꮌ">>,
             <<"Ꮍ", "ꮍ">>, <<"Ꮎ", "ꮎ">>, <<"Ꮏ", "ꮏ">>, <<"Ꮐ", "ꮐ">>, <<"Ꮑ", "ꮑ">>, <<"Ꮒ", "ꮒ">>,
             <<"Ꮓ", "ꮓ">>, <<"Ꮔ", "ꮔ">>, <<"Ꮕ", "ꮕ">>, <<"Ꮖ", "ꮖ">>, <<"Ꮗ", "ꮗ">>, <<"Ꮘ", "ꮘ">>,
             <<"Ꮙ", "ꮙ">>, <<"Ꮚ", "ꮚ">>, <<"Ꮛ", "ꮛ">>, <<"Ꮜ", "ꮜ">>, <<"Ꮝ", "ꮝ">>, <<"Ꮞ", "ꮞ">>,
             <<"Ꮟ", "ꮟ">>, <<"Ꮠ", "ꮠ">>, <<"Ꮡ", "ꮡ">>, <<"Ꮢ", "ꮢ">>, <<"Ꮣ", "ꮣ">>, <<"Ꮤ", "ꮤ">>,
             <<"Ꮥ", "ꮥ">>, <<"Ꮦ", "ꮦ">>, <<"Ꮧ", "ꮧ">>, <<"Ꮨ", "ꮨ">>, <<"Ꮩ", "ꮩ">>, <<"Ꮪ", "ꮪ">>,
             <<"Ꮫ", "ꮫ">>, <<"Ꮬ", "ꮬ">>, <<"Ꮭ", "ꮭ">>, <<"Ꮮ", "ꮮ">>, <<"Ꮯ", "ꮯ">>, <<"Ꮰ", "ꮰ">>,
             <<"Ꮱ", "ꮱ">>, <<"Ꮲ", "ꮲ">>, <<"Ꮳ", "ꮳ">>, <<"Ꮴ", "ꮴ">>, <<"Ꮵ", "ꮵ">>, <<"Ꮶ", "ꮶ">>,
             <<"Ꮷ", "ꮷ">>, <<"Ꮸ", "ꮸ">>, <<"Ꮹ", "ꮹ">>, <<"Ꮺ", "ꮺ">>, <<"Ꮻ", "ꮻ">>, <<"Ꮼ", "ꮼ">>,
             <<"Ꮽ", "ꮽ">>, <<"Ꮾ", "ꮾ">>, <<"Ꮿ", "ꮿ">>, <<"Ᏸ", "ᏸ">>, <<"Ᏹ", "ᏹ">>, <<"Ᏺ", "ᏺ">>,
             <<"Ᏻ", "ᏻ">>, <<"Ᏼ", "ᏼ">>, <<"Ᏽ", "ᏽ">>, <<"Ა", "ა">>, <<"Ბ", "ბ">>, <<"Გ", "გ">>,
             <<"Დ", "დ">>, <<"Ე", "ე">>, <<"Ვ", "ვ">>, <<"Ზ", "ზ">>, <<"Თ", "თ">>, <<"Ი", "ი">>,
             <<"Კ", "კ">>, <<"Ლ", "ლ">>, <<"Მ", "მ">>, <<"Ნ", "ნ">>, <<"Ო", "ო">>, <<"Პ", "პ">>,
             <<"Ჟ", "ჟ">>, <<"Რ", "რ">>, <<"Ს", "ს">>, <<"Ტ", "ტ">>, <<"Უ", "უ">>, <<"Ფ", "ფ">>,
             <<"Ქ", "ქ">>, <<"Ღ", "ღ">>, <<"Ყ", "ყ">>, <<"Შ", "შ">>, <<"Ჩ", "ჩ">>, <<"Ც", "ც">>,
             <<"Ძ", "ძ">>, <<"Წ", "წ">>, <<"Ჭ", "ჭ">>, <<"Ხ", "ხ">>, <<"Ჯ", "ჯ">>, <<"Ჰ", "ჰ">>,
             <<"Ჱ", "ჱ">>, <<"Ჲ", "ჲ">>, <<"Ჳ", "ჳ">>, <<"Ჴ", "ჴ">>, <<"Ჵ", "ჵ">>, <<"Ჶ", "ჶ">>,
             <<"Ჷ", "ჷ">>, <<"Ჸ", "ჸ">>, <<"Ჹ", "ჹ">>, <<"Ჺ", "ჺ">>, <<"Ჽ", "ჽ">>, <<"Ჾ", "ჾ">>,
             <<"Ჿ", "ჿ">>, <<"Ẁ", "ẁ">>, <<"Ẃ", "ẃ">>, <<"Ẅ", "ẅ">>, <<"Ẇ", "ẇ">>, <<"Ẉ", "ẉ">>,
             <<"Ẋ", "ẋ">>, <<"Ẍ", "ẍ">>, <<"Ẏ", "ẏ">>, <<"Ẑ", "ẑ">>, <<"Ẓ", "ẓ">>, <<"Ẕ", "ẕ">>,
             <<"ẞ", "ß">>, <<"Ạ", "ạ">>, <<"Ả", "ả">>, <<"Ấ", "ấ">>, <<"Ầ", "ầ">>, <<"Ẩ", "ẩ">>,
             <<"Ẫ", "ẫ">>, <<"Ậ", "ậ">>, <<"Ắ", "ắ">>, <<"Ằ", "ằ">>, <<"Ẳ", "ẳ">>, <<"Ẵ", "ẵ">>,
             <<"Ặ", "ặ">>, <<"Ẹ", "ẹ">>, <<"Ẻ", "ẻ">>, <<"Ẽ", "ẽ">>, <<"Ế", "ế">>, <<"Ề", "ề">>,
             <<"Ể", "ể">>, <<"Ễ", "ễ">>, <<"Ệ", "ệ">>, <<"Ỉ", "ỉ">>, <<"Ị", "ị">>, <<"Ọ", "ọ">>,
             <<"Ỏ", "ỏ">>, <<"Ố", "ố">>, <<"Ồ", "ồ">>, <<"Ổ", "ổ">>, <<"Ỗ", "ỗ">>, <<"Ộ", "ộ">>,
             <<"Ớ", "ớ">>, <<"Ờ", "ờ">>, <<"Ở", "ở">>, <<"Ỡ", "ỡ">>, <<"Ợ", "ợ">>, <<"Ụ", "ụ">>,
             <<"Ủ", "ủ">>, <<"Ứ", "ứ">>, <<"Ừ", "ừ">>, <<"Ử", "ử">>, <<"Ữ", "ữ">>, <<"Ự", "ự">>,
             <<"Ỳ", "ỳ">>, <<"Ỵ", "ỵ">>, <<"Ỷ", "ỷ">>, <<"Ỹ", "ỹ">>, <<"Ỻ", "ỻ">>, <<"Ỽ", "ỽ">>,
             <<"Ỿ", "ỿ">>, <<"ᾈ", "ᾀ">>, <<"ᾉ", "ᾁ">>, <<"ᾊ", "ᾂ">>, <<"ᾋ", "ᾃ">>, <<"ᾌ", "ᾄ">>,
             <<"ᾍ", "ᾅ">>, <<"ᾎ", "ᾆ">>, <<"ᾏ", "ᾇ">>, <<"ᾘ", "ᾐ">>, <<"ᾙ", "ᾑ">>, <<"ᾚ", "ᾒ">>,
             <<"ᾛ", "ᾓ">>, <<"ᾜ", "ᾔ">>, <<"ᾝ", "ᾕ">>, <<"ᾞ", "ᾖ">>, <<"ᾟ", "ᾗ">>, <<"ᾨ", "ᾠ">>,
             <<"ᾩ", "ᾡ">>, <<"ᾪ", "ᾢ">>, <<"ᾫ", "ᾣ">>, <<"ᾬ", "ᾤ">>, <<"ᾭ", "ᾥ">>, <<"ᾮ", "ᾦ">>,
             <<"ᾯ", "ᾧ">>, <<"Ᾰ", "ᾰ">>, <<"Ᾱ", "ᾱ">>, <<"Ὰ", "U+1F70">>, <<"Ά", "U+1F71">>, <<"ᾼ", "ᾳ">>,
             <<"Ὲ", "U+1F72">>, <<"Έ", "U+1F73">>, <<"Ὴ", "U+1F74">>, <<"Ή", "U+1F75">>, <<"ῌ", "ῃ">>, <<"Ῐ", "ῐ">>,
             <<"Ῑ", "ῑ">>, <<"Ὶ", "U+1F76">>, <<"Ί", "U+1F77">>, <<"Ῠ", "ῠ">>, <<"Ῡ", "ῡ">>, <<"Ὺ", "U+1F7A">>,
             <<"Ύ", "U+1F7B">>, <<"Ῥ", "ῥ">>, <<"Ὸ", "U+1F78">>, <<"Ό", "U+1F79">>, <<"Ὼ", "U+1F7C">>, <<"Ώ", "U+1F7D">>,
             <<"ῼ", "ῳ">>, <<"Ↄ", "ↄ">>, <<"Ⓐ", "ⓐ">>, <<"Ⓑ", "ⓑ">>, <<"Ⓒ", "ⓒ">>, <<"Ⓓ", "ⓓ">>,
             <<"Ⓔ", "ⓔ">>, <<"Ⓕ", "ⓕ">>, <<"Ⓖ", "ⓖ">>, <<"Ⓗ", "ⓗ">>, <<"Ⓘ", "ⓘ">>, <<"Ⓙ", "ⓙ">>,
             <<"Ⓚ", "ⓚ">>, <<"Ⓛ", "ⓛ">>, <<"Ⓜ", "ⓜ">>, <<"Ⓝ", "ⓝ">>, <<"Ⓞ", "ⓞ">>, <<"Ⓟ", "ⓟ">>,
             <<"Ⓠ", "ⓠ">>, <<"Ⓡ", "ⓡ">>, <<"Ⓢ", "ⓢ">>, <<"Ⓣ", "ⓣ">>, <<"Ⓤ", "ⓤ">>, <<"Ⓥ", "ⓥ">>,
             <<"Ⓦ", "ⓦ">>, <<"Ⓧ", "ⓧ">>, <<"Ⓨ", "ⓨ">>, <<"Ⓩ", "ⓩ">>, <<"Ⲁ", "ⲁ">>, <<"Ⲃ", "ⲃ">>,
             <<"Ⲅ", "ⲅ">>, <<"Ⲇ", "ⲇ">>, <<"Ⲉ", "ⲉ">>, <<"Ⲋ", "ⲋ">>, <<"Ⲍ", "ⲍ">>, <<"Ⲏ", "ⲏ">>,
             <<"Ⲑ", "ⲑ">>, <<"Ⲓ", "ⲓ">>, <<"Ⲕ", "ⲕ">>, <<"Ⲗ", "ⲗ">>, <<"Ⲙ", "ⲙ">>, <<"Ⲛ", "ⲛ">>,
             <<"Ⲝ", "ⲝ">>, <<"Ⲟ", "ⲟ">>, <<"Ⲡ", "ⲡ">>, <<"Ⲣ", "ⲣ">>, <<"Ⲥ", "ⲥ">>, <<"Ⲧ", "ⲧ">>,
             <<"Ⲩ", "ⲩ">>, <<"Ⲫ", "ⲫ">>, <<"Ⲭ", "ⲭ">>, <<"Ⲯ", "ⲯ">>, <<"Ⲱ", "ⲱ">>, <<"Ⲳ", "ⲳ">>,
             <<"Ⲵ", "ⲵ">>, <<"Ⲷ", "ⲷ">>, <<"Ⲹ", "ⲹ">>, <<"Ⲻ", "ⲻ">>, <<"Ⲽ", "ⲽ">>, <<"Ⲿ", "ⲿ">>,
             <<"Ⳁ", "ⳁ">>, <<"Ⳃ", "ⳃ">>, <<"Ⳅ", "ⳅ">>, <<"Ⳇ", "ⳇ">>, <<"Ⳉ", "ⳉ">>, <<"Ⳋ", "ⳋ">>,
             <<"Ⳍ", "ⳍ">>, <<"Ⳏ", "ⳏ">>, <<"Ⳑ", "ⳑ">>, <<"Ⳓ", "ⳓ">>, <<"Ⳕ", "ⳕ">>, <<"Ⳗ", "ⳗ">>,
             <<"Ⳙ", "ⳙ">>, <<"Ⳛ", "ⳛ">>, <<"Ⳝ", "ⳝ">>, <<"Ⳟ", "ⳟ">>, <<"Ⳡ", "ⳡ">>, <<"Ⳣ", "ⳣ">>,
             <<"Ⳬ", "ⳬ">>, <<"Ⳮ", "ⳮ">>, <<"Ⳳ", "ⳳ">>, <<"Ꚁ", "ꚁ">>, <<"Ꚃ", "ꚃ">>, <<"Ꚅ", "ꚅ">>,
             <<"Ꚇ", "ꚇ">>, <<"Ꚉ", "ꚉ">>, <<"Ꚋ", "ꚋ">>, <<"Ꚍ", "ꚍ">>, <<"Ꚏ", "ꚏ">>, <<"Ꚑ", "ꚑ">>,
             <<"Ꚓ", "ꚓ">>, <<"Ꚕ", "ꚕ">>, <<"Ꚗ", "ꚗ">>, <<"Ꚙ", "ꚙ">>, <<"Ꚛ", "ꚛ">>, <<"Ꞁ", "ꞁ">>,
             <<"Ꞃ", "ꞃ">>, <<"Ꞅ", "ꞅ">>, <<"Ꞇ", "ꞇ">>, <<"Ꞌ", "ꞌ">>, <<"Ɥ", "U+0265">>, <<"Ꞑ", "ꞑ">>,
             <<"Ꞓ", "ꞓ">>, <<"Ꞗ", "ꞗ">>, <<"Ꞙ", "ꞙ">>, <<"Ꞛ", "ꞛ">>, <<"Ꞝ", "ꞝ">>, <<"Ꞟ", "ꞟ">>,
             <<"Ꞡ", "ꞡ">>, <<"Ꞣ", "ꞣ">>, <<"Ꞥ", "ꞥ">>, <<"Ꞧ", "ꞧ">>, <<"Ꞩ", "ꞩ">>, <<"Ɦ", "U+0266">>,
             <<"Ɜ", "U+025C">>, <<"Ɡ", "U+0261">>, <<"Ɬ", "U+026C">>, <<"Ɪ", "U+026A">>, <<"Ʞ", "ʞ">>, <<"Ʇ", "ʇ">>,
             <<"Ʝ", "ʝ">>, <<"Ꭓ", "U+AB53">>, <<"Ꞵ", "ꞵ">>, <<"Ꞷ", "ꞷ">>, <<"Ꞹ", "ꞹ">>, <<"Ꞻ", "ꞻ">>,
             <<"Ꞽ", "ꞽ">>, <<"Ꞿ", "ꞿ">>, <<"Ꟁ", "ꟁ">>, <<"Ꟃ", "ꟃ">>, <<"Ꞔ", "ꞔ">>, <<"Ʂ", "ʂ">>,
             <<"Ᶎ", "ᶎ">>, <<"Ꟈ", "ꟈ">>, <<"Ꟊ", "ꟊ">>, <<"Ꟑ", "ꟑ">>, <<"Ꟗ", "ꟗ">>, <<"Ꟙ", "ꟙ">>,
             <<"Ꟶ", "ꟶ">>}
    IN  [c \in {pair[1] : pair \in pairs} |->
            (CHOOSE pair \in pairs : pair[1] = c)[2]]

\* The characters that count as cased, and those that are passed over, when
\* str.lower looks for the letters around a capital sigma.
Cased ==
    {"A", "B", "C", "D", "E", "F", "G", "H", "I", "J", "K", "L", "M", "N",
     "O", "P", "Q", "R", "S", "T", "U", "V", "W", "X", "Y", "Z", "a", "b",
     "c", "d", "e", "f", "g", "h", "i", "j", "k", "l", "m", "n", "o", "p",
     "q", "r", "s", "t", "u", "v", "w", "x", "y", "z", "ª", "µ", "º", "À",
     "Á", "Â", "Ã", "Ä", "Å", "Æ", "Ç", "È", "É", "Ê", "Ë", "Ì", "Í", "Î",
     "Ï", "Ð", "Ñ", "Ò", "Ó", "Ô", "Õ", "Ö", "Ø", "Ù", "Ú", "Û", "Ü", "Ý",
     "Þ", "ß", "à", "á", "â", "ã", "ä", "å", "æ", "ç", "è", "é", "ê", "ë",
     "ì", "í", "î", "ï", "ð", "ñ", "ò", "ó", "ô", "õ", "ö", "ø", "ù", "ú",
     "û", "ü", "ý", "þ", "ÿ", "ƀ", "Ɓ", "Ƃ", "ƃ", "Ƅ", "ƅ", "Ɔ", "Ƈ", "ƈ",
     "Ɖ", "Ɗ", "Ƌ", "ƌ", "ƍ", "Ǝ", "Ə", "Ɛ", "Ƒ", "ƒ", "Ɠ", "Ɣ", "ƕ", "Ɩ",
     "Ɨ", "Ƙ", "ƙ", "ƚ", "ƛ", "Ɯ", "Ɲ", "ƞ", "Ɵ", "Ơ", "ơ", "Ƣ", "ƣ", "Ƥ",
     "ƥ", "Ʀ", "Ƨ", "ƨ", "Ʃ", "ƪ", "ƫ", "Ƭ", "ƭ", "Ʈ", "Ư", "ư", "Ʊ", "Ʋ",
     "Ƴ", "ƴ", "Ƶ", "ƶ", "Ʒ", "Ƹ", "ƹ", "ƺ", "Ƽ", "ƽ", "ƾ", "ƿ", "Ǆ", "ǅ",
     "ǆ", "Ǉ", "ǈ", "ǉ", "Ǌ", "ǋ", "ǌ", "Ǎ", "ǎ", "Ǐ", "ǐ", "Ǒ", "ǒ", "Ǔ",
     "ǔ", "Ǖ", "ǖ", "Ǘ", "ǘ", "Ǚ", "ǚ", "Ǜ", "ǜ", "ǝ", "Ǟ", "ǟ", "Ǡ", "ǡ",
     "Ǣ", "ǣ", "Ǥ", "ǥ", "Ǧ", "ǧ", "Ǩ", "ǩ", "Ǫ", "ǫ", "Ǭ", "ǭ", "Ǯ", "ǯ",
     "ǰ", "Ǳ", "ǲ", "ǳ", "Ǵ", "ǵ", "Ƕ", "Ƿ", "Ǹ", "ǹ", "Ǻ", "ǻ", "Ǽ", "ǽ",
     "Ǿ", "ǿ", "ʀ", "ʁ", "ʂ", "ʃ", "ʄ", "ʅ", "ʆ", "ʇ", "ʈ", "ʉ", "ʊ", "ʋ",
     "ʌ", "ʍ", "ʎ", "ʏ", "ʐ", "ʑ", "ʒ", "ʓ", "ʕ", "ʖ", "ʗ", "ʘ", "ʙ", "ʚ",
     "ʛ", "ʜ", "ʝ", "ʞ", "ʟ", "ʠ", "ʡ", "ʢ", "ʣ", "ʤ", "ʥ", "ʦ", "ʧ", "ʨ",
     "ʩ", "ʪ", "ʫ", "ʬ", "ʭ", "ʮ", "ʯ", "Ά", "Έ", "Ή", "Ί", "Ό", "Ύ", "Ώ",
     "ΐ", "Α", "Β", "Γ", "Δ", "Ε", "Ζ", "Η", "Θ", "Ι", "Κ", "Λ", "Μ", "Ν",
     "Ξ", "Ο", "Π", "Ρ", "Σ", "Τ", "Υ", "Φ", "Χ", "Ψ", "Ω", "Ϊ", "Ϋ", "ά",
     "έ", "ή", "ί", "ΰ", "α", "β", "γ", "δ", "ε", "ζ", "η", "θ", "ι", "κ",
     "λ", "μ", "ν", "ξ", "ο", "π", "ρ", "ς", "σ", "τ", "υ", "φ", "χ", "ψ",
     "ω", "ϊ", "ϋ", "ό", "ύ", "ώ", "Ϗ", "ϐ", "ϑ", "ϒ", "ϓ", "ϔ", "ϕ", "ϖ",
     "ϗ", "Ϙ", "ϙ", "Ϛ", "ϛ", "Ϝ", "ϝ", "Ϟ", "ϟ", "Ϡ", "ϡ", "Ϣ", "ϣ", "Ϥ",
     "ϥ", "Ϧ", "ϧ", "Ϩ", "ϩ", "Ϫ", "ϫ", "Ϭ", "ϭ", "Ϯ", "ϯ", "ϰ", "ϱ", "ϲ",
     "ϳ", "ϴ", "ϵ", "Ϸ", "ϸ", "Ϲ", "Ϻ", "ϻ", "ϼ", "Ͻ", "Ͼ", "Ͽ", "Ҁ", "ҁ",
     "Ҋ", "ҋ", "Ҍ", "ҍ", "Ҏ", "ҏ", "Ґ", "ґ", "Ғ", "ғ", "Ҕ", "ҕ", "Җ", "җ",
     "Ҙ", "ҙ", "Қ", "қ", "Ҝ", "ҝ", "Ҟ", "ҟ", "Ҡ", "ҡ", "Ң", "ң", "Ҥ", "ҥ",
     "Ҧ", "ҧ", "Ҩ", "ҩ", "Ҫ", "ҫ", "Ҭ", "ҭ", "Ү", "ү", "Ұ", "ұ", "Ҳ", "ҳ",
     "Ҵ", "ҵ", "Ҷ", "ҷ", "Ҹ", "ҹ", "Һ", "һ", "Ҽ", "ҽ", "Ҿ", "ҿ", "Ӏ", "Ӂ",
     "ӂ", "Ӄ", "ӄ", "Ӆ", "ӆ", "Ӈ", "ӈ", "Ӊ", "ӊ", "Ӌ", "ӌ", "Ӎ", "ӎ", "ӏ",
     "Ӑ", "ӑ", "Ӓ", "ӓ", "Ӕ", "ӕ", "Ӗ", "ӗ", "Ә", "ә", "Ӛ", "ӛ", "Ӝ", "ӝ",
     "Ӟ", "ӟ", "Ӡ", "ӡ", "Ӣ", "ӣ", "Ӥ", "ӥ", "Ӧ", "ӧ", "Ө", "ө", "Ӫ", "ӫ",
     "Ӭ", "ӭ", "Ӯ", "ӯ", "Ӱ", "ӱ", "Ӳ", "ӳ", "Ӵ", "ӵ", "Ӷ", "ӷ", "Ӹ", "ӹ",
     "Ӻ", "ӻ", "Ӽ", "ӽ", "Ӿ", "ӿ", "ր", "ց", "ւ", "փ", "ք", "օ", "ֆ", "և",
     "ֈ", "Ⴀ", "Ⴁ", "Ⴂ", "Ⴃ", "Ⴄ", "Ⴅ", "Ⴆ", "Ⴇ", "Ⴈ", "Ⴉ", "Ⴊ", "Ⴋ", "Ⴌ",
     "Ⴍ", "Ⴎ", "Ⴏ", "Ⴐ", "Ⴑ", "Ⴒ", "Ⴓ", "Ⴔ", "Ⴕ", "Ⴖ", "Ⴗ", "Ⴘ", "Ⴙ", "Ⴚ",
     "Ⴛ", "Ⴜ", "Ⴝ", "Ⴞ", "Ⴟ", "Ⴠ", "Ⴡ", "Ⴢ", "Ⴣ", "Ⴤ", "Ⴥ", "Ⴧ", "Ⴭ", "ა",
     "ბ", "გ", "დ", "ე", "ვ", "ზ", "თ", "ი", "კ", "ლ", "მ", "ნ", "ო", "პ",
     "ჟ", "რ", "ს", "ტ", "უ", "ფ", "ქ", "ღ", "ყ", "შ", "ჩ", "ც", "ძ", "წ",
     "ჭ", "ხ", "ჯ", "ჰ", "ჱ", "ჲ", "ჳ", "ჴ", "ჵ", "ჶ", "ჷ", "ჸ", "ჹ", "ჺ",
     "ჽ", "ჾ", "ჿ", "Ꭰ", "Ꭱ", "Ꭲ", "Ꭳ", "Ꭴ", "Ꭵ", "Ꭶ", "Ꭷ", "Ꭸ", "Ꭹ", "Ꭺ",
     "Ꭻ", "Ꭼ", "Ꭽ", "Ꭾ", "Ꭿ", "Ꮀ", "Ꮁ", "Ꮂ", "Ꮃ", "Ꮄ", "Ꮅ", "Ꮆ", "Ꮇ", "Ꮈ",
     "Ꮉ", "Ꮊ", "Ꮋ", "Ꮌ", "Ꮍ", "Ꮎ", "Ꮏ", "Ꮐ", "Ꮑ", "Ꮒ", "Ꮓ", "Ꮔ", "Ꮕ", "Ꮖ",
     "Ꮗ", "Ꮘ", "Ꮙ", "Ꮚ", "Ꮛ", "Ꮜ", "Ꮝ", "Ꮞ", "Ꮟ", "Ꮠ", "Ꮡ", "Ꮢ", "Ꮣ", "Ꮤ",
     "Ꮥ", "Ꮦ", "Ꮧ", "Ꮨ", "Ꮩ", "Ꮪ", "Ꮫ", "Ꮬ", "Ꮭ", "Ꮮ", "Ꮯ", "Ꮰ", "Ꮱ", "Ꮲ",
     "Ꮳ", "Ꮴ", "Ꮵ", "Ꮶ", "Ꮷ", "Ꮸ", "Ꮹ", "Ꮺ", "Ꮻ", "Ꮼ", "Ꮽ", "Ꮾ", "Ꮿ", "Ᏸ",
     "Ᏹ", "Ᏺ", "Ᏻ", "Ᏼ", "Ᏽ", "ᏸ", "ᏹ", "ᏺ", "ᏻ", "ᏼ", "ᏽ", "ᲀ", "ᲁ", "ᲂ",
     "ᲃ", "ᲄ", "ᲅ", "ᲆ", "ᲇ", "ᲈ", "Ა", "Ბ", "Გ", "Დ", "Ე", "Ვ", "Ზ", "Თ",
     "Ი", "Კ", "Ლ", "Მ", "Ნ", "Ო", "Პ", "Ჟ", "Რ", "Ს", "Ტ", "Უ", "Ფ", "Ქ",
     "Ღ", "Ყ", "Შ", "Ჩ", "Ც", "Ძ", "Წ", "Ჭ", "Ხ", "Ჯ", "Ჰ", "Ჱ", "Ჲ", "Ჳ",
     "Ჴ", "Ჵ", "Ჶ", "Ჷ", "Ჸ", "Ჹ", "Ჺ", "Ჽ", "Ჾ", "Ჿ", "ᶀ", "ᶁ", "ᶂ", "ᶃ",
     "ᶄ", "ᶅ", "ᶆ", "ᶇ", "ᶈ", "ᶉ", "ᶊ", "ᶋ", "ᶌ", "ᶍ", "ᶎ", "ᶏ", "ᶐ", "ᶑ",
     "ᶒ", "ᶓ", "ᶔ", "ᶕ", "ᶖ", "ᶗ", "ᶘ", "ᶙ", "ᶚ", "Ẁ", "ẁ", "Ẃ", "ẃ", "Ẅ",
     "ẅ", "Ẇ", "ẇ", "Ẉ", "ẉ", "Ẋ", "ẋ", "Ẍ", "ẍ", "Ẏ", "ẏ", "Ẑ", "ẑ", "Ẓ",
     "ẓ", "Ẕ", "ẕ", "ẖ", "ẗ", "ẘ", "ẙ", "ẚ", "ẛ", "ẜ", "ẝ", "ẞ", "ẟ", "Ạ",
     "ạ", "Ả", "ả", "Ấ", "ấ", "Ầ", "ầ", "Ẩ", "ẩ", "Ẫ", "ẫ", "Ậ", "ậ", "Ắ",
     "ắ", "Ằ", "ằ", "Ẳ", "ẳ", "Ẵ", "ẵ", "Ặ", "ặ", "Ẹ", "ẹ", "Ẻ", "ẻ", "Ẽ",
     "ẽ", "Ế", "ế", "Ề", "ề", "Ể", "ể", "Ễ", "ễ", "Ệ", "ệ", "Ỉ", "ỉ", "Ị",
     "ị", "Ọ", "ọ", "Ỏ", "ỏ", "Ố", "ố", "Ồ", "ồ", "Ổ", "ổ", "Ỗ", "ỗ", "Ộ",
     "ộ", "Ớ", "ớ", "Ờ", "ờ", "Ở", "ở", "Ỡ", "ỡ", "Ợ", "ợ", "Ụ", "ụ", "Ủ",
     "ủ", "Ứ", "ứ", "Ừ", "ừ", "Ử", "ử", "Ữ", "ữ", "Ự", "ự", "Ỳ", "ỳ", "Ỵ",
     "ỵ", "Ỷ", "ỷ", "Ỹ", "ỹ", "Ỻ", "ỻ", "Ỽ", "ỽ", "Ỿ", "ỿ", "ᾀ", "ᾁ", "ᾂ",
     "ᾃ", "ᾄ", "ᾅ", "ᾆ", "ᾇ", "ᾈ", "ᾉ", "ᾊ", "ᾋ", "ᾌ", "ᾍ", "ᾎ", "ᾏ", "ᾐ",
     "ᾑ", "ᾒ", "ᾓ", "ᾔ", "ᾕ", "ᾖ", "ᾗ", "ᾘ", "ᾙ", "ᾚ", "ᾛ", "ᾜ", "ᾝ", "ᾞ",
     "ᾟ", "ᾠ", "ᾡ", "ᾢ", "ᾣ", "ᾤ", "ᾥ", "ᾦ", "ᾧ", "ᾨ", "ᾩ", "ᾪ", "ᾫ", "ᾬ",
     "ᾭ", "ᾮ", "ᾯ", "ᾰ", "ᾱ", "ᾲ", "ᾳ", "ᾴ", "ᾶ", "ᾷ", "Ᾰ", "Ᾱ", "Ὰ", "Ά",
     "ᾼ", "ι", "ῂ", "ῃ", "ῄ", "ῆ", "ῇ", "Ὲ", "Έ", "Ὴ", "Ή", "ῌ", "ῐ", "ῑ",
     "ῒ", "ΐ", "ῖ", "ῗ", "Ῐ", "Ῑ", "Ὶ", "Ί", "ῠ", "ῡ", "ῢ", "ΰ", "ῤ", "ῥ",
     "ῦ", "ῧ", "Ῠ", "Ῡ", "Ὺ", "Ύ", "Ῥ", "ῲ", "ῳ", "ῴ", "ῶ", "ῷ", "Ὸ", "Ό",
     "Ὼ", "Ώ", "ῼ", "Ↄ", "ↄ", "Ⓐ", "Ⓑ", "Ⓒ", "Ⓓ", "Ⓔ", "Ⓕ", "Ⓖ", "Ⓗ", "Ⓘ",
     "Ⓙ", "Ⓚ", "Ⓛ", "Ⓜ", "Ⓝ", "Ⓞ", "Ⓟ", "Ⓠ", "Ⓡ", "Ⓢ", "Ⓣ", "Ⓤ", "Ⓥ", "Ⓦ",
     "Ⓧ", "Ⓨ", "Ⓩ", "ⓐ", "ⓑ", "ⓒ", "ⓓ", "ⓔ", "ⓕ", "ⓖ", "ⓗ", "ⓘ", "ⓙ", "ⓚ",
     "ⓛ", "ⓜ", "ⓝ", "ⓞ", "ⓟ", "ⓠ", "ⓡ", "ⓢ", "ⓣ", "ⓤ", "ⓥ", "ⓦ", "ⓧ", "ⓨ",
     "ⓩ", "Ⲁ", "ⲁ", "Ⲃ", "ⲃ", "Ⲅ", "ⲅ", "Ⲇ", "ⲇ", "Ⲉ", "ⲉ", "Ⲋ", "ⲋ", "Ⲍ",
     "ⲍ", "Ⲏ", "ⲏ", "Ⲑ", "ⲑ", "Ⲓ", "ⲓ", "Ⲕ", "ⲕ", "Ⲗ", "ⲗ", "Ⲙ", "ⲙ", "Ⲛ",
     "ⲛ", "Ⲝ", "ⲝ", "Ⲟ", "ⲟ", "Ⲡ", "ⲡ", "Ⲣ", "ⲣ", "Ⲥ", "ⲥ", "Ⲧ", "ⲧ", "Ⲩ",
     "ⲩ", "Ⲫ", "ⲫ", "Ⲭ", "ⲭ", "Ⲯ", "ⲯ", "Ⲱ", "ⲱ", "Ⲳ", "ⲳ", "Ⲵ", "ⲵ", "Ⲷ",
     "ⲷ", "Ⲹ", "ⲹ", "Ⲻ", "ⲻ", "Ⲽ", "ⲽ", "Ⲿ", "ⲿ", "Ⳁ", "ⳁ", "Ⳃ", "ⳃ", "Ⳅ",
     "ⳅ", "Ⳇ", "ⳇ", "Ⳉ", "ⳉ", "Ⳋ", "ⳋ", "Ⳍ", "ⳍ", "Ⳏ", "ⳏ", "Ⳑ", "ⳑ", "Ⳓ",
     "ⳓ", "Ⳕ", "ⳕ", "Ⳗ", "ⳗ", "Ⳙ", "ⳙ", "Ⳛ", "ⳛ", "Ⳝ", "ⳝ", "Ⳟ", "ⳟ", "Ⳡ",
     "ⳡ", "Ⳣ", "ⳣ", "ⳤ", "Ⳬ", "ⳬ", "Ⳮ", "ⳮ", "Ⳳ", "ⳳ", "Ꚁ", "ꚁ", "Ꚃ", "ꚃ",
     "Ꚅ", "ꚅ", "Ꚇ", "ꚇ", "Ꚉ", "ꚉ", "Ꚋ", "ꚋ", "Ꚍ", "ꚍ", "Ꚏ", "ꚏ", "Ꚑ", "ꚑ",
     "Ꚓ", "ꚓ", "Ꚕ", "ꚕ", "Ꚗ", "ꚗ", "Ꚙ", "ꚙ", "Ꚛ", "ꚛ", "Ꞁ", "ꞁ", "Ꞃ", "ꞃ",
     "Ꞅ", "ꞅ", "Ꞇ", "ꞇ", "Ꞌ", "ꞌ", "Ɥ", "ꞎ", "Ꞑ", "ꞑ", "Ꞓ", "ꞓ", "ꞔ", "ꞕ",
     "Ꞗ", "ꞗ", "Ꞙ", "ꞙ", "Ꞛ", "ꞛ", "Ꞝ", "ꞝ", "Ꞟ", "ꞟ", "Ꞡ", "ꞡ", "Ꞣ", "ꞣ",
     "Ꞥ", "ꞥ", "Ꞧ", "ꞧ", "Ꞩ", "ꞩ", "Ɦ", "Ɜ", "Ɡ", "Ɬ", "Ɪ", "ꞯ", "Ʞ", "Ʇ",
     "Ʝ", "Ꭓ", "Ꞵ", "ꞵ", "Ꞷ", "ꞷ", "Ꞹ", "ꞹ", "Ꞻ", "ꞻ", "Ꞽ", "ꞽ", "Ꞿ", "ꞿ",
     "Ꟁ", "ꟁ", "Ꟃ", "ꟃ", "Ꞔ", "Ʂ", "Ᶎ", "Ꟈ", "ꟈ", "Ꟊ", "ꟊ", "Ꟑ", "ꟑ", "ꟓ",
     "ꟕ", "Ꟗ", "ꟗ", "Ꟙ", "ꟙ", "Ꟶ", "ꟶ", "ꟺ", "ꮀ", "ꮁ", "ꮂ", "ꮃ", "ꮄ", "ꮅ",
     "ꮆ", "ꮇ", "ꮈ", "ꮉ", "ꮊ", "ꮋ", "ꮌ", "ꮍ", "ꮎ", "ꮏ", "ꮐ", "ꮑ", "ꮒ", "ꮓ",
     "ꮔ", "ꮕ", "ꮖ", "ꮗ", "ꮘ", "ꮙ", "ꮚ", "ꮛ", "ꮜ", "ꮝ", "ꮞ", "ꮟ", "ꮠ", "ꮡ",
     "ꮢ", "ꮣ", "ꮤ", "ꮥ", "ꮦ", "ꮧ", "ꮨ", "ꮩ", "ꮪ", "ꮫ", "ꮬ", "ꮭ", "ꮮ", "ꮯ",
     "ꮰ", "ꮱ", "ꮲ", "ꮳ", "ꮴ", "ꮵ", "ꮶ", "ꮷ", "ꮸ", "ꮹ", "ꮺ", "ꮻ", "ꮼ", "ꮽ",
     "ꮾ", "ꮿ"}

CaseIgnorable ==
    {"'", ".", ":", "^", "¨", "­", "¯", "´", "·", "¸", "ʰ", "ʱ", "ʲ", "ʳ",
     "ʴ", "ʵ", "ʶ", "ʷ", "ʸ", "ʹ", "ʺ", "ʻ", "ʼ", "ʽ", "ʾ", "ʿ", "ˀ", "ˁ",
     "˂", "˃", "˄", "˅", "ˆ", "ˇ", "ˈ", "ˉ", "ˊ", "ˋ", "ˌ", "ˍ", "ˎ", "ˏ",
     "ː", "ˑ", "˒", "˓", "˔", "˕", "˖", "˗", "˘", "˙", "˚", "˛", "˜", "˝",
     "˞", "˟", "ˠ", "ˡ", "ˢ", "ˣ", "ˤ", "˥", "˦", "˧", "˨", "˩", "˪", "˫",
     "ˬ", "˭", "ˮ", "˯", "˰", "˱", "˲", "˳", "˴", "˵", "˶", "˷", "˸", "˹",
     "˺", "˻", "˼", "˽", "˾", "˿", "΄", "΅", "·", "҃", "҄", "҅", "҆", "҇",
     "҈", "҉", "֑", "֒", "֓", "֔", "֕", "֖", "֗", "֘", "֙", "֚", "֛", "֜",
     "֝", "֞", "֟", "֠", "֡", "֢", "֣", "֤", "֥", "֦", "֧", "֨", "֩", "֪",
     "֫", "֬", "֭", "֮", "֯", "ְ", "ֱ", "ֲ", "ֳ", "ִ", "ֵ", "ֶ", "ַ", "ָ",
     "ֹ", "ֺ", "ֻ", "ּ", "ֽ", "ֿ", "ׁ", "ׂ", "ׄ", "ׅ", "ׇ", "״", "ۖ", "ۗ",
     "ۘ", "ۙ", "ۚ", "ۛ", "ۜ", "۝", "۟", "۠", "ۡ", "ۢ", "ۣ", "ۤ", "ۥ", "ۦ",
     "ۧ", "ۨ", "۪", "۫", "۬", "ۭ", "ަ", "ާ", "ި", "ީ", "ު", "ޫ", "ެ", "ޭ",
     "ޮ", "ޯ", "ް", "߫", "߬", "߭", "߮", "߯", "߰", "߱", "߲", "߳", "ߴ", "ߵ",
     "ߺ", "߽", "࢈", "࢐", "࢑", "࢘", "࢙", "࢚", "࢛", "࢜", "࢝", "࢞", "࢟", "ࣉ",
     "࣊", "࣋", "࣌", "࣍", "࣎", "࣏", "࣐", "࣑", "࣒", "࣓", "ࣔ", "ࣕ", "ࣖ", "ࣗ",
     "ࣘ", "ࣙ", "ࣚ", "ࣛ", "ࣜ", "ࣝ", "ࣞ", "ࣟ", "࣠", "࣡", "࣢", "ࣣ", "ࣤ", "ࣥ",
     "ࣦ", "ࣧ", "ࣨ", "ࣩ", "࣪", "࣫", "࣬", "࣭", "࣮", "࣯", "ࣰ", "ࣱ", "ࣲ", "ࣳ",
     "ࣴ", "ࣵ", "ࣶ", "ࣷ", "ࣸ", "ࣹ", "ࣺ", "ࣻ", "ࣼ", "ࣽ", "ࣾ", "ࣿ", "ঁ", "়",
     "ু", "ূ", "ৃ", "ৄ", "্", "ৢ", "ৣ", "৾", "ઁ", "ં", "઼", "ુ", "ૂ", "ૃ",
     "ૄ", "ૅ", "ે", "ૈ", "્", "ૢ", "ૣ", "ૺ", "ૻ", "ૼ", "૽", "૾", "૿", "ஂ",
     "ீ", "்", "ಁ", "಼", "ಿ", "ೆ", "ೌ", "್", "ೢ", "ೣ", "ඁ", "්", "ි", "ී",
     "ු", "ූ", "ັ", "ິ", "ີ", "ຶ", "ື", "ຸ", "ູ", "຺", "ົ", "ຼ", "ໆ", "່",
     "້", "໊", "໋", "໌", "ໍ", "ྀ", "ཱྀ", "ྂ", "ྃ", "྄", "྆", "྇", "ྍ", "ྎ",
     "ྏ", "ྐ", "ྑ", "ྒ", "ྒྷ", "ྔ", "ྕ", "ྖ", "ྗ", "ྙ", "ྚ", "ྛ", "ྜ", "ྜྷ",
     "ྞ", "ྟ", "ྠ", "ྡ", "ྡྷ", "ྣ", "ྤ", "ྥ", "ྦ", "ྦྷ", "ྨ", "ྩ", "ྪ", "ྫ",
     "ྫྷ", "ྭ", "ྮ", "ྯ", "ྰ", "ྱ", "ྲ", "ླ", "ྴ", "ྵ", "ྶ", "ྷ", "ྸ", "ྐྵ",
     "ྺ", "ྻ", "ྼ", "࿆", "ႂ", "ႅ", "ႆ", "ႍ", "ႝ", "ჼ", "឴", "឵", "ិ", "ី",
     "ឹ", "ឺ", "ុ", "ូ", "ួ", "ំ", "៉", "៊", "់", "៌", "៍", "៎", "៏", "័",
     "៑", "្", "៓", "ៗ", "៝", "ᢅ", "ᢆ", "ᢩ", "ᪧ", "᪰", "᪱", "᪲", "᪳", "᪴",
     "᪵", "᪶", "᪷", "᪸", "᪹", "᪺", "᪻", "᪼", "᪽", "᪾", "ᪿ", "ᫀ", "᫁", "᫂",
     "᫃", "᫄", "᫅", "᫆", "᫇", "᫈", "᫉", "᫊", "᫋", "ᫌ", "ᫍ", "ᫎ", "ᮀ", "ᮁ",
     "ᮢ", "ᮣ", "ᮤ", "ᮥ", "ᮨ", "ᮩ", "᮫", "ᮬ", "ᮭ", "᯦", "ᯨ", "ᯩ", "ᯭ", "ᯯ",
     "ᯰ", "ᯱ", "᳐", "᳑", "᳒", "᳔", "᳕", "᳖", "᳗", "᳘", "᳙", "᳚", "᳛", "᳜",
     "᳝", "᳞", "᳟", "᳠", "᳢", "᳣", "᳤", "᳥", "᳦", "᳧", "᳨", "᳭", "᳴", "᳸",
     "᳹", "ᶛ", "ᶜ", "ᶝ", "ᶞ", "ᶟ", "ᶠ", "ᶡ", "ᶢ", "ᶣ", "ᶤ", "ᶥ", "ᶦ", "ᶧ",
     "ᶨ", "ᶩ", "ᶪ", "ᶫ", "ᶬ", "ᶭ", "ᶮ", "ᶯ", "ᶰ", "ᶱ", "ᶲ", "ᶳ", "ᶴ", "ᶵ",
     "ᶶ", "ᶷ", "ᶸ", "ᶹ", "ᶺ", "ᶻ", "ᶼ", "ᶽ", "ᶾ", "ᶿ", "᷀", "᷁", "᷂", "᷃",
     "᷄", "᷅", "᷆", "᷇", "᷈", "᷉", "᷊", "᷋", "᷌", "᷍", "᷎", "᷏", "᷐", "᷑",
     "᷒", "ᷓ", "ᷔ", "ᷕ", "ᷖ", "ᷗ", "ᷘ", "ᷙ", "ᷚ", "ᷛ", "ᷜ", "ᷝ", "ᷞ", "ᷟ",
     "ᷠ", "ᷡ", "ᷢ", "ᷣ", "ᷤ", "ᷥ", "ᷦ", "ᷧ", "ᷨ", "ᷩ", "ᷪ", "ᷫ", "ᷬ", "ᷭ",
     "ᷮ", "ᷯ", "ᷰ", "ᷱ", "ᷲ", "ᷳ", "ᷴ", "᷵", "᷶", "᷷", "᷸", "᷹", "᷺", "᷻",
     "᷼", "᷽", "᷾", "᷿", "᾽", "᾿", "῀", "῁", "῍", "῎", "῏", "῝", "῞", "῟",
     "῭", "΅", "`", "´", "῾", "ₐ", "ₑ", "ₒ", "ₓ", "ₔ", "ₕ", "ₖ", "ₗ", "ₘ",
     "ₙ", "ₚ", "ₛ", "ₜ", "⃐", "⃑", "⃒", "⃓", "⃔", "⃕", "⃖", "⃗", "⃘", "⃙",
     "⃚", "⃛", "⃜", "⃝", "⃞", "⃟", "⃠", "⃡", "⃢", "⃣", "⃤", "⃥", "⃦", "⃧",
     "⃨", "⃩", "⃪", "⃫", "⃬", "⃭", "⃮", "⃯", "⃰", "⳯", "⳰", "⳱", "ⷠ", "ⷡ",
     "ⷢ", "ⷣ", "ⷤ", "ⷥ", "ⷦ", "ⷧ", "ⷨ", "ⷩ", "ⷪ", "ⷫ", "ⷬ", "ⷭ", "ⷮ", "ⷯ",
     "ⷰ", "ⷱ", "ⷲ", "ⷳ", "ⷴ", "ⷵ", "ⷶ", "ⷷ", "ⷸ", "ⷹ", "ⷺ", "ⷻ", "ⷼ", "ⷽ",
     "ⷾ", "ⷿ", "゙", "゚", "゛", "゜", "ゝ", "ゞ", "ー", "ヽ", "ヾ", "ꓸ", "ꓹ", "ꓺ",
     "ꓻ", "ꓼ", "ꓽ", "ꚜ", "ꚝ", "ꚞ", "ꚟ", "꛰", "꛱", "ꞈ", "꞉", "꞊", "ꟲ", "ꟳ",
     "ꟴ", "ꟸ", "ꟹ", "꣄", "ꣅ", "꣠", "꣡", "꣢", "꣣", "꣤", "꣥", "꣦", "꣧", "꣨",
     "꣩", "꣪", "꣫", "꣬", "꣭", "꣮", "꣯", "꣰", "꣱", "ꣿ", "ꦀ", "ꦁ", "ꦂ", "꦳",
     "ꦶ", "ꦷ", "ꦸ", "ꦹ", "ꦼ", "ꦽ", "ꧏ", "ꧥ", "ꧦ", "ꪰ", "ꪲ", "ꪳ", "ꪴ", "ꪷ",
     "ꪸ", "ꪾ", "꪿", "꫁", "ꫝ", "ꫬ", "ꫭ", "ꫳ", "ꫴ", "꫶", "ꯥ", "ꯨ", "꯭", "﮲",
     "﮳", "﮴", "﮵", "﮶", "﮷", "﮸", "﮹", "﮺", "﮻", "﮼", "﮽", "﮾", "﮿", "﯀",
     "﯁", "﯂", "﻿", "ﾞ", "ﾟ", "￣", "￹", "￺", "￻"}

\* str.lower on one character.
LowerChar(c) == IF c \in DOMAIN LowerMap THEN LowerMap[c] ELSE c

\* str.lower on a text: character by character, a capital sigma that ends
\* a word becoming the final sigma.  It ends a word when the nearest
\* character before it that is not passed over is cased, and the nearest
\* after it is not.
Lower(s) ==
    LET final(i) ==
            LET before == {j \in 1..(i - 1) : s[j] \notin CaseIgnorable}
                after == {j \in (i + 1)..Len(s) : s[j] \notin CaseIgnorable}
            IN  /\ before # {}
                /\ s[CHOOSE j \in before : \A k \in before : k <= j] \in Cased
                /\ \/ after = {}
                   \/ s[CHOOSE j \in after : \A k \in after : j <= k] \notin Cased
    IN  [i \in 1..Len(s) |->
            IF s[i] = "Σ" /\ final(i) THEN "ς" ELSE LowerChar(s[i])]

\* sub in s
Contains(sub, s) ==
    \E i \in 0..(Len(s) - Len(sub)) : SubSeq(s, i + 1, i + Len(sub)) = sub

\* ' '.join(texts)
RECURSIVE JoinSpace(_)
JoinSpace(texts) ==
    IF texts = <<>> THEN <<>>
    ELSE IF Len(texts) = 1 THEN texts[1]
    ELSE texts[1] \o <<" ">> \o JoinSpace(Tail(texts))

\* The keyword sets _is_ai_related defines itself.
ai_model_keywords == {
    <<"g", "p", "t">>,
    <<"l", "l", "m">>,
    <<"l", "a", "r", "g", "e", " ", "l", "a", "n", "g", "u", "a", "g", "e", " ", "m", "o", "d", "e", "l">>,
    <<"c", "h", "a", "t", "g", "p", "t">>,
    <<"c", "l", "a", "u", "d", "e">>,
    <<"g", "e", "m", "i", "n", "i">>,
    <<"a", "n", "t", "h", "r", "o", "p", "i", "c">>,
    <<"m", "i", "s", "t", "r", "a", "l">>,
    <<"l", "l", "a", "m", "a">>,
    <<"p", "a", "l", "m">>,
    <<"b", "e", "r", "t">>,
    <<"t", "r", "a", "n", "s", "f", "o", "r", "m", "e", "r">>}

tech_company_keywords == {
    <<"o", "p", "e", "n", "a", "i">>,
    <<"g", "o", "o", "g", "l", "e">>,
    <<"m", "i", "c", "r", "o", "s", "o", "f", "t">>,
    <<"m", "e", "t", "a">>,
    <<"a", "p", "p", "l", "e">>,
    <<"a", "m", "a", "z", "o", "n">>,
    <<"a", "n", "t", "h", "r", "o", "p", "i", "c">>,
    <<"t", "e", "s", "l", "a">>,
    <<"n", "v", "i", "d", "i", "a">>,
    <<"b", "a", "i", "d", "u">>,
    <<"a", "l", "i", "b", "a", "b", "a">>,
    <<"t", "e", "n", "c", "e", "n", "t">>}

ai_tech_keywords == {
    <<"a", "r", "t", "i", "f", "i", "c", "i", "a", "l", " ", "i", "n", "t", "e", "l", "l", "i", "g", "e", "n", "c", "e">>,
    <<"m", "a", "c", "h", "i", "n", "e", " ", "l", "e", "a", "r", "n", "i", "n", "g">>,
    <<"d", "e", "e", "p", " ", "l", "e", "a", "r", "n", "i", "n", "g">>,
    <<"n", "e", "u", "r", "a", "l", " ", "n", "e", "t", "w", "o", "r", "k">>,
    <<"a", "i", " ", "m", "o", "d", "e", "l">>,
    <<"f", "o", "u", "n", "d", "a", "t", "i", "o", "n", " ", "m", "o", "d", "e", "l">>,
    <<"g", "e", "n", "e", "r", "a", "t", "i", "v", "e", " ", "a", "i">>}

(***************************************************************************)
(* The crawler: entries, sources, _is_ai_related, _parse_feed_entry,       *)
(* _fetch_from_source, _deduplicate_articles.                              *)
(***************************************************************************)
MaxPerSource == 50  \* _fetch_from_source stops at this many articles

\* hashlib.md5(link.encode()).hexdigest(): one digest per link.
Md5Map == [u1 |-> "h1", u2 |-> "h2", u3 |-> "h3"]

Md5(link) == IF link = "" THEN "h0" ELSE Md5Map[link]

\* date_parser.parse(...).astimezone(UTC): the instant a raw date string
\* names; two strings may name the same instant; "bad" does not parse.
DateMap == [d1 |-> 1, d2 |-> 2, d2z |-> 2]

Parseable(raw) == raw \in DOMAIN DateMap

\* The configured sources, in the order of the news_sources mapping.
Sources == <<
    [key |-> "aibase", name |-> "aibase", type |-> "rsshub",
     keywords |-> {<<"A", "I">>}],
    [key |-> "techcrunch", name |-> "techcrunch", type |-> "rsshub",
     keywords |-> {<<"a", "i">>, <<"G", "P", "T">>}] >>

SourceKeys == {Sources[i].key : i \in 1..Len(Sources)}

ImgTag == <<"<", "i", "m", "g", " ", "s", "r", "c", "=", "\"", "i", "\"", ">">>

eGPT == [title |-> <<"G", "P", "T">>, summary |-> ImgTag, link |-> "u1",
         pubDate |-> "d2", published |-> "", tags |-> <<>>]

eGptLower == [title |-> <<"g", "p", "t">>, summary |-> ImgTag, link |-> "u1",
              pubDate |-> "d1", published |-> "", tags |-> <<>>]

eLLM == [title |-> <<"l", "l", "m">>, summary |-> <<>>, link |-> "u2",
         pubDate |-> "d1", published |-> "", tags |-> <<>>]

eCat == [title |-> <<"c", "a", "t">>, summary |-> <<>>, link |-> "u3",
         pubDate |-> "d2", published |-> "", tags |-> <<<<"c", "a", "t">>>>]

eAiNoImg == [title |-> <<"a", "i">>, summary |-> <<"x">>, link |-> "u3",
             pubDate |-> "bad", published |-> "", tags |-> <<>>]

eNoLink == [title |-> <<"g", "p", "t">>, summary |-> <<>>, link |-> "",
            pubDate |-> "d2z", published |-> "", tags |-> <<>>]

\* A tag without term: feedparser gives the tag {'term': None}, written here
\* as a term that is no text of characters.
NoneTerm == <<"None">>

eBadTag == [title |-> <<"g", "p", "t">>, summary |-> ImgTag, link |-> "u2",
            pubDate |-> "d1", published |-> "", tags |-> <<NoneTerm>>]

\* The feeds a source may answer with.
Feeds == {<<eGPT, eLLM>>, <<eGptLower, eCat>>, <<eAiNoImg, eNoLink>>}

\* What a fetch may meet: a feed, a network error or timeout, a status other
\* than 200, an empty body, a body feedparser flags as malformed (bozo).
FetchOutcomes == {"ok", "network_error", "bad_status", "empty_body", "bozo"}

\* The instants datetime.now may give during a fetch.
Nows == {2, 3}

_is_ai_related_tags_as_keywords(entry, keywords) ==
    IF \E i \in 1..Len(entry.tags) : entry.tags[i] = NoneTerm
    THEN [exception |-> TRUE, value |-> FALSE]
    ELSE
    LET title == Lower(entry.title)
        summary == Lower(entry.summary)
        tags == [i \in 1..Len(entry.tags) |-> Lower(entry.tags[i])]
        all_keywords == ai_model_keywords \cup tech_company_keywords
                        \cup ai_tech_keywords \cup {Lower(k) : k \in keywords}
                        \cup Range(tags)
        text_to_check == title \o <<" ">> \o summary \o <<" ">> \o JoinSpace(tags)
    IN  [exception |-> FALSE,
         value |-> IF \E keyword \in all_keywords : Contains(keyword, title)
                   THEN TRUE
                   ELSE \E keyword \in all_keywords : Contains(keyword, text_to_check)]

_is_ai_related_title_only(entry, keywords) ==
    IF \E i \in 1..Len(entry.tags) : entry.tags[i] = NoneTerm
    THEN [exception |-> TRUE, value |-> FALSE]
    ELSE
    LET title == Lower(entry.title)
        all_keywords == ai_model_keywords \cup tech_company_keywords
                        \cup ai_tech_keywords \cup {Lower(k) : k \in keywords}
    IN  [exception |-> FALSE,
         value |-> \E keyword \in all_keywords : Contains(keyword, title)]

\* _is_ai_related.  Line 229 lowers the term of every tag before anything is
\* searched: tag.get('term', '') gives None for a tag whose term is None,
\* and None.lower() raises AttributeError out of the function.  Otherwise:
\* a keyword in the lowered title, else in the lowered title, summary and
\* tag terms joined by spaces.
_is_ai_related(entry, keywords) ==
    IF \E i \in 1..Len(entry.tags) : entry.tags[i] = NoneTerm
    THEN [exception |-> TRUE, value |-> FALSE]
    ELSE
    LET title == Lower(entry.title)
        summary == Lower(entry.summary)
        tags == [i \in 1..Len(entry.tags) |-> Lower(entry.tags[i])]
        all_keywords == ai_model_keywords \cup tech_company_keywords
                        \cup ai_tech_keywords \cup {Lower(k) : k \in keywords}
        text_to_check == title \o <<" ">> \o summary \o <<" ">> \o JoinSpace(tags)
    IN  [exception |-> FALSE,
         value |-> IF \E keyword \in all_keywords : Contains(keyword, title)
                   THEN TRUE
                   ELSE \E keyword \in all_keywords : Contains(keyword, text_to_check)]

\* Where in s the pattern  prefix([^"]+)"  matches.
Quote == "\""

NextQuote(s, p) ==
    IF \E q \in p..Len(s) : s[q] = Quote
    THEN CHOOSE q \in p..Len(s) :
            /\ s[q] = Quote
            /\ \A r \in p..(q - 1) : s[r] # Quote
    ELSE 0

MatchStarts(prefix, s) ==
    {i \in 1..Len(s) :
        /\ i + Len(prefix) - 1 <= Len(s)
        /\ SubSeq(s, i, i + Len(prefix) - 1) = prefix
        /\ NextQuote(s, i + Len(prefix)) > i + Len(prefix)}

\* The group of the leftmost match, as a one-element sequence; empty when
\* nothing matches.
FirstGroup(prefix, s) ==
    LET starts == MatchStarts(prefix, s)
    IN  IF starts = {} THEN <<>>
        ELSE LET i == CHOOSE i \in starts : \A j \in starts : i <= j
                 p == i + Len(prefix)
             IN  <<SubSeq(s, p, NextQuote(s, p) - 1)>>

SrcPrefix == <<"s", "r", "c", "=", "\"">>

ImgSrcPrefix == <<"<", "i", "m", "g", " ", "s", "r", "c", "=", "\"">>

\* What evaluating image_url gives: a text, an exception, or no binding.
Bound(url) == [state |-> "bound", url |-> url]

Unbound == [state |-> "unbound", url |-> <<>>]

ImageRaised == [state |-> "raised", url |-> <<>>]

\* _parse_feed_entry, lines 171-187: image_url is assigned for an rsshub
\* source named aibase or techcrunch only; re.search(...).group(1) raises
\* when a techcrunch summary holds no image.
ImageUrl(entry, source_config) ==
    IF source_config.type = "rsshub"
    THEN IF source_config.name = "aibase"
         THEN LET image_urls == FirstGroup(SrcPrefix, entry.summary)
              IN  IF image_urls = <<>> THEN Bound(<<>>) ELSE Bound(image_urls[1])
         ELSE IF source_config.name = "techcrunch"
         THEN IF entry.summary # <<>>
              THEN LET m == FirstGroup(ImgSrcPrefix, entry.summary)
                   IN  IF m = <<>> THEN ImageRaised ELSE Bound(m[1])
              ELSE Bound(<<>>)
         ELSE Unbound
    ELSE Unbound

\* The raw date: the pubDate field for rsshub, published or pubDate else.
RawDate(entry, source_config) ==
    IF source_config.type = "rsshub" THEN entry.pubDate
    ELSE IF entry.published # "" THEN entry.published ELSE entry.pubDate

\* _parse_feed_entry, lines 195-203: now when the date is missing or
\* does not parse.
PublishedDate(raw, now) ==
    IF raw # "" /\ Parseable(raw) THEN DateMap[raw] ELSE now

_parse_feed_entry_title_in_id(entry, source_name, source_config, now) ==
    LET image_url == ImageUrl(entry, source_config)
    IN  IF image_url.state # "bound"
        THEN <<>>
        ELSE <<[id |-> <<Md5(entry.link), entry.title>>,
                title |-> entry.title,
                summary_len |-> 0,
                link |-> entry.link,
                source |-> source_name,
                image_url |-> image_url.url,
                published_date |-> PublishedDate(RawDate(entry, source_config), now)]>>

\* _parse_feed_entry: the article as a one-element sequence, or the empty
\* sequence for None, returned when anything raised, the unbound image_url
\* included; an empty link is hashed like any other.
_parse_feed_entry(entry, source_name, source_config, now) ==
    LET image_url == ImageUrl(entry, source_config)
    IN  IF image_url.state # "bound"
        THEN <<>>
        ELSE <<[id |-> Md5(entry.link),
                title |-> entry.title,
                summary_len |-> 0,
                link |-> entry.link,
                source |-> source_name,
                image_url |-> image_url.url,
                published_date |-> PublishedDate(RawDate(entry, source_config), now)]>>

RECURSIVE FetchLoopStopsAtBadEntry(_, _, _, _)
FetchLoopStopsAtBadEntry(entries, source_config, nows, arts) ==
    IF entries = <<>> THEN arts
    ELSE IF _is_ai_related(Head(entries), source_config.keywords).exception
    THEN arts
    ELSE IF ~_is_ai_related(Head(entries), source_config.keywords).value
    THEN FetchLoopStopsAtBadEntry(Tail(entries), source_config, Tail(nows), arts)
    ELSE LET article == _parse_feed_entry(Head(entries), source_config.key,
                                          source_config, Head(nows))
             got == arts \o article
         IN  IF article = <<>> \/ Len(got) >= MaxPerSource THEN got
             ELSE FetchLoopStopsAtBadEntry(Tail(entries), source_config, Tail(nows), got)

RECURSIVE FetchLoopOneMore(_, _, _, _)
FetchLoopOneMore(entries, source_config, nows, arts) ==
    IF entries = <<>> THEN arts
    ELSE IF _is_ai_related(Head(entries), source_config.keywords).exception
    THEN FetchLoopOneMore(Tail(entries), source_config, Tail(nows), arts)
    ELSE IF ~_is_ai_related(Head(entries), source_config.keywords).value
    THEN FetchLoopOneMore(Tail(entries), source_config, Tail(nows), arts)
    ELSE LET article == _parse_feed_entry(Head(entries), source_config.key,
                                          source_config, Head(nows))
             got == arts \o article
         IN  IF Len(got) > MaxPerSource THEN got
             ELSE FetchLoopOneMore(Tail(entries), source_config, Tail(nows), got)

\* _fetch_from_source, lines 140-158: the loop over the entries.  An entry
\* whose relevance check raises is skipped by the except of lines 153-155,
\* one that is not related by the continue of line 144, and one whose
\* article is None adds nothing; the loop ends after the entry that brings
\* the list to 50 articles.  _parse_feed_entry reads the clock itself
\* (lines 200, 203), so each entry has its own reading: nows[i] is what
\* datetime.now gives while entry i is parsed.
RECURSIVE FetchLoop(_, _, _, _)
FetchLoop(entries, source_config, nows, arts) ==
    IF entries = <<>> THEN arts
    ELSE IF _is_ai_related(Head(entries), source_config.keywords).exception
    THEN FetchLoop(Tail(entries), source_config, Tail(nows), arts)
    ELSE IF ~_is_ai_related(Head(entries), source_config.keywords).value
    THEN FetchLoop(Tail(entries), source_config, Tail(nows), arts)
    ELSE LET article == _parse_feed_entry(Head(entries), source_config.key,
                                          source_config, Head(nows))
             got == arts \o article
         IN  IF Len(got) >= MaxPerSource THEN got
             ELSE FetchLoop(Tail(entries), source_config, Tail(nows), got)

_fetch_from_source_unchecked(source_config, outcome, feed, nows) ==
    FetchLoop(feed, source_config, nows, <<>>)

\* _fetch_from_source: [] for every failure, else the articles of the feed.
_fetch_from_source(source_config, outcome, feed, nows) ==
    IF outcome # "ok" THEN <<>>
    ELSE FetchLoop(feed, source_config, nows, <<>>)

RECURSIVE UniqueLinksLastWins(_, _)
UniqueLinksLastWins(arts, seen_urls) ==
    IF arts = <<>> THEN <<>>
    ELSE LET article == Head(arts)
             rest == Tail(arts)
         IN  IF /\ article.link # ""
                /\ \A j \in 1..Len(rest) : rest[j].link # article.link
             THEN <<article>> \o UniqueLinksLastWins(rest, seen_urls)
             ELSE UniqueLinksLastWins(rest, seen_urls)

RECURSIVE UniqueLinksKeepsEmpty(_, _)
UniqueLinksKeepsEmpty(arts, seen_urls) ==
    IF arts = <<>> THEN <<>>
    ELSE LET article == Head(arts)
         IN  IF article.link \notin seen_urls
             THEN <<article>> \o UniqueLinksKeepsEmpty(Tail(arts),
                                      seen_urls \cup {article.link})
             ELSE UniqueLinksKeepsEmpty(Tail(arts), seen_urls)

\* _deduplicate_articles, lines 254-260: the first article of each
\* non-empty link.
RECURSIVE UniqueLinks(_, _)
UniqueLinks(arts, seen_urls) ==
    IF arts = <<>> THEN <<>>
    ELSE LET article == Head(arts)
         IN  IF article.link # "" /\ article.link \notin seen_urls
             THEN <<article>> \o UniqueLinks(Tail(arts),
                                             seen_urls \cup {article.link})
             ELSE UniqueLinks(Tail(arts), seen_urls)

InsertAsc(sorted, article) ==
    LET k == Cardinality({i \in 1..Len(sorted) :
                 sorted[i].published_date <= article.published_date})
    IN  SubSeq(sorted, 1, k) \o <<article>> \o SubSeq(sorted, k + 1, Len(sorted))

InsertDescBeforeTies(sorted, article) ==
    LET k == Cardinality({i \in 1..Len(sorted) :
                 sorted[i].published_date > article.published_date})
    IN  SubSeq(sorted, 1, k) \o <<article>> \o SubSeq(sorted, k + 1, Len(sorted))

RECURSIVE SortDescTiesReversed(_, _)
SortDescTiesReversed(arts, sorted) ==
    IF arts = <<>> THEN sorted
    ELSE SortDescTiesReversed(Tail(arts), InsertDescBeforeTies(sorted, Head(arts)))

\* sorted(..., key=published_date, reverse=True): a stable sort, so an
\* article goes behind those at least as recent that came before it.
InsertDesc(sorted, article) ==
    LET k == Cardinality({i \in 1..Len(sorted) :
                 sorted[i].published_date >= article.published_date})
    IN  SubSeq(sorted, 1, k) \o <<article>> \o SubSeq(sorted, k + 1, Len(sorted))

RECURSIVE SortDesc(_, _)
SortDesc(arts, sorted) ==
    IF arts = <<>> THEN sorted
    ELSE SortDesc(Tail(arts), InsertDesc(sorted, Head(arts)))

_deduplicate_articles_reversed(arts) ==
    SortDescTiesReversed(UniqueLinks(arts, {}), <<>>)

_deduplicate_articles(arts) == SortDesc(UniqueLinks(arts, {}), <<>>)

\* fetch_news, lines 84-88: the results of the tasks in the order of the
\* sources, a task that ended with an exception skipped.
RECURSIVE Collect(_)
Collect(results) ==
    IF results = <<>> THEN <<>>
    ELSE IF Head(results).exception THEN Collect(Tail(results))
    ELSE Head(results).value \o Collect(Tail(results))

(***************************************************************************)
(* The content processor.                                                  *)
(***************************************************************************)
\* What the summarization API may answer: an exception, no text, a text of
\* some length.
SummaryResponses ==
    {[exception |-> TRUE, len |-> 0]} \cup
    [exception : {FALSE}, len : {0, 40, MaxSummary + 1}]

\* _generate_summary: the text of the answer, "" when the call raised.
_generate_summary(response) == IF response.exception THEN 0 ELSE response.len

\* The numbers of _calculate_relevance are floats: binary numbers of 53
\* significant bits.  A float that is not negative is written here as
\* [digits |-> <<d1, d2, d3, d4>>, exp |-> e]: the number
\* (((d1 * Base + d2) * Base + d3) * Base + d4) * 2^e, whose digits in base
\* 2^14 make 53 bits, the first of them 1; 0.0 is [digits |-> <<>>, exp |-> 0].
\* The result of every operation is the float nearest to the exact result,
\* the one with an even last bit when two floats are as near.
Precision == 53

Base == 2 ^ 14

\* The float nearest to the number with these digits, times 2^exp, plus,
\* when sticky, less than one unit of the last digit.  A digit may exceed
\* the base: Carried gives each carry to the digit before.  The number,
\* without its leading zeros and with four more digits, is scaled so that
\* the bits that do not fit make whole digits; these are dropped, and one
\* is added to the kept digits when the dropped ones are more than half a
\* unit, or half a unit and the last kept bit is 1.
FloatRound(digits, exp, sticky) ==
    LET RECURSIVE Carried(_, _)
        Carried(ds, carry) ==
            IF ds = <<>> THEN <<>>
            ELSE LET total == ds[Len(ds)] + carry
                 IN  Carried(SubSeq(ds, 1, Len(ds) - 1), total \div Base)
                     \o <<total % Base>>
        added(next, e) ==
            IF next[1] = 2 ^ (Precision - 3 * 14)
            THEN [digits |-> <<next[1] \div 2, 0, 0, 0>>, exp |-> e + 1]
            ELSE [digits |-> next, exp |-> e]
        rounded(kept, up, e) ==
            IF up THEN added(Carried([kept EXCEPT ![4] = @ + 1], 0), e)
            ELSE [digits |-> kept, exp |-> e]
        cut(scaled, last, e) ==
            rounded(SubSeq(scaled, last - 3, last),
                    /\ scaled[last + 1] >= Base \div 2
                    /\ \/ sticky
                       \/ scaled[last + 1] % (Base \div 2) # 0
                       \/ \E i \in (last + 2)..Len(scaled) : scaled[i] # 0
                       \/ scaled[last] % 2 = 1,
                    e)
        scale(number, shift) ==
            cut(Carried(<<0>> \o [i \in 1..Len(number) |->
                                     number[i] * 2 ^ (14 - (shift % 14))], 0),
                Len(number) - shift \div 14,
                exp - 14 * 4 + shift)
        measure(number) ==
            scale(number,
                  14 * (Len(number) - 1)
                  + (CHOOSE b \in 1..14 : 2 ^ (b - 1) <= number[1] /\ number[1] < 2 ^ b)
                  - Precision)
        strip(proper) ==
            IF \A i \in 1..Len(proper) : proper[i] = 0
            THEN [digits |-> <<>>, exp |-> 0]
            ELSE measure(SubSeq(proper,
                                CHOOSE i \in 1..Len(proper) :
                                    proper[i] # 0 /\ \A j \in 1..(i - 1) : proper[j] = 0,
                                Len(proper))
                         \o <<0, 0, 0, 0>>)
    IN  strip(Carried(<<0, 0>> \o digits, 0))

\* The float of a literal or of a quotient: the float nearest to p / q, by
\* long division to six digits after the point, for p >= 0 and q below 2^17.
Float(p, q) ==
    LET RECURSIVE LongDivision(_, _)
        LongDivision(r, n) ==
            IF n = 0 THEN [digits |-> <<>>, rem |-> r]
            ELSE LET after == LongDivision((r * Base) % q, n - 1)
                 IN  [digits |-> <<(r * Base) \div q>> \o after.digits,
                      rem |-> after.rem]
        fraction == LongDivision(p % q, 6)
    IN  FloatRound(<<p \div q>> \o fraction.digits, 0 - 14 * 6, fraction.rem # 0)

\* x * y: the exact product, digit by digit, then rounded.
FloatMul(x, y) ==
    LET a == x.digits
        b == y.digits
    IN  IF a = <<>> \/ b = <<>> THEN [digits |-> <<>>, exp |-> 0]
        ELSE FloatRound(<<a[1] * b[1],
                          a[1] * b[2] + a[2] * b[1],
                          a[1] * b[3] + a[2] * b[2] + a[3] * b[1],
                          a[1] * b[4] + a[2] * b[3] + a[3] * b[2] + a[4] * b[1],
                          a[2] * b[4] + a[3] * b[3] + a[4] * b[2],
                          a[3] * b[4] + a[4] * b[3],
                          a[4] * b[4]>>,
                        x.exp + y.exp, FALSE)

\* x + y: the exact sum, the two lined up at the smaller exponent, then
\* rounded.
FloatAdd(x, y) ==
    LET small == IF x.exp <= y.exp THEN x ELSE y
        large == IF x.exp <= y.exp THEN y ELSE x
        by == large.exp - small.exp
        n == 4 + by \div 14
        sum == [i \in 1..n |->
                   (IF i <= 4 THEN large.digits[i] * 2 ^ (by % 14) ELSE 0)
                   + (IF i > n - 4 THEN small.digits[i - (n - 4)] ELSE 0)]
    IN  IF x.digits = <<>> THEN y
        ELSE IF y.digits = <<>> THEN x
        ELSE FloatRound(sum, small.exp, FALSE)

\* x < y, of two floats that are not negative.
FloatLess(x, y) ==
    IF x.digits = <<>> \/ y.digits = <<>> THEN x.digits = <<>> /\ y.digits # <<>>
    ELSE \/ x.exp < y.exp
         \/ /\ x.exp = y.exp
            /\ \E i \in 1..4 :
                  /\ x.digits[i] < y.digits[i]
                  /\ \A j \in 1..(i - 1) : x.digits[j] = y.digits[j]

CategoryWeights == [technical_innovation |-> Float(1, 1),
                    business_application |-> Float(8, 10),
                    policy_regulation |-> Float(7, 10),
                    research_progress |-> Float(9, 10),
                    uncategorized |-> Float(5, 10)]

\* _calculate_relevance: the sum of the three terms, each product and each
\* sum rounded as the floats round it.  The score of the sentiment is given
\* in thousandths and is the float of that literal.  It reads
\* article['sentiment'], article['key_points'] and article['category'], and
\* raises KeyError when the article has no such key.
_calculate_relevance(article) ==
    IF ~({"sentiment", "key_points", "category"} \subseteq DOMAIN article)
    THEN [exception |-> TRUE, value |-> [digits |-> <<>>, exp |-> 0]]
    ELSE LET least(x) == IF FloatLess(Float(1, 1), x) THEN Float(1, 1) ELSE x
             magnitude(x) == IF x < 0 THEN 0 - x ELSE x
             sentiment_score == Float(magnitude(article.sentiment.score), 1000)
             key_points_score == least(Float(Len(article.key_points), 5))
             weight == IF article.category \in DOMAIN CategoryWeights
                       THEN CategoryWeights[article.category] ELSE Float(5, 10)
             score == FloatAdd(FloatAdd(FloatAdd(Float(0, 1),
                                                 FloatMul(sentiment_score, Float(3, 10))),
                                        FloatMul(key_points_score, Float(3, 10))),
                               FloatMul(weight, Float(4, 10)))
         IN  [exception |-> FALSE, value |-> least(score)]

\* _process_single_article: the copy with its summary and relevance_score;
\* the classification, key points and sentiment steps are commented out.
_process_single_article(article, response) ==
    LET processed == [article EXCEPT !.summary_len = _generate_summary(response)]
        relevance == _calculate_relevance(processed)
    IN  IF relevance.exception
        THEN [exception |-> TRUE, value |-> processed]
        ELSE [exception |-> FALSE,
              value |-> [k \in DOMAIN processed \cup {"relevance_score"} |->
                            IF k = "relevance_score" THEN relevance.value
                            ELSE processed[k]]]

\* process_articles, lines 36-42: an article whose processing raised is
\* logged and left out.
RECURSIVE ProcessLoop(_, _)
ProcessLoop(arts, responses) ==
    IF arts = <<>> THEN <<>>
    ELSE LET processed == _process_single_article(Head(arts), Head(responses))
         IN  (IF processed.exception THEN <<>> ELSE <<processed.value>>)
             \o ProcessLoop(Tail(arts), Tail(responses))

\* _sort_by_relevance: sorted by relevance_score, reverse=True (stable).
InsertByScore(sorted, article) ==
    LET k == Cardinality({i \in 1..Len(sorted) :
                 ~FloatLess(sorted[i].relevance_score, article.relevance_score)})
    IN  SubSeq(sorted, 1, k) \o <<article>> \o SubSeq(sorted, k + 1, Len(sorted))

RECURSIVE _sort_by_relevance(_, _)
_sort_by_relevance(arts, sorted) ==
    IF arts = <<>> THEN sorted
    ELSE _sort_by_relevance(Tail(arts), InsertByScore(sorted, Head(arts)))

process_articles(arts, responses) ==
    _sort_by_relevance(ProcessLoop(arts, responses), <<>>)

(***************************************************************************)
(* The report generator.                                                   *)
(***************************************************************************)
MaxPerSection == 5  \* _generate_section formats the first five articles

Sections == {"headlines", "technical_updates", "industry_news", "policy_updates"}

CategoryMapping == [technical_innovation |-> "technical_updates",
                    business_application |-> "industry_news",
                    policy_regulation |-> "policy_updates",
                    research_progress |-> "technical_updates"]

\* _categorize_articles: the articles of a section, in order.
InSection(section, article) ==
    \/ section = "headlines" /\ FloatLess(Float(8, 10), article.relevance_score)
    \/ /\ article.category \in DOMAIN CategoryMapping
       /\ CategoryMapping[article.category] = section

\* The keys _format_article reads; of the sentiment it reads 'label'.
FormatKeys == {"title", "summary", "key_points", "url", "sentiment", "source",
               "published_date"}

\* What writing the report file may meet.
SaveOutcomes == {"ok", "write_error"}

\* generate_report: a dictionary with date, sections and metadata, and no
\* key 'articles'; KeyError when an article lacks a key that is read
\* (_categorize_articles and _generate_metadata read every article,
\* _format_article the first five of each section), and
\* the exception of _save_report (lines 141-143) when the report file
\* cannot be written: both are logged and raised again (lines 61-63).
generate_report(arts, saved) ==
    IF \E i \in 1..Len(arts) :
          ~({"relevance_score", "category", "source"} \subseteq DOMAIN arts[i])
    THEN [exception |-> TRUE, value |-> [date |-> "today"]]
    ELSE IF saved # "ok"
    THEN [exception |-> TRUE, value |-> [date |-> "today"]]
    ELSE LET members(section) ==
                 LET in(a) == InSection(section, a)
                 IN  SelectSeq(arts, in)
             shown(section) ==
                 SubSeq(members(section), 1,
                        IF Len(members(section)) <= MaxPerSection
                        THEN Len(members(section)) ELSE MaxPerSection)
         IN  IF \E section \in Sections : \E i \in 1..Len(shown(section)) :
                    \/ ~(FormatKeys \subseteq DOMAIN shown(section)[i])
                    \/ "label" \notin DOMAIN shown(section)[i].sentiment
             THEN [exception |-> TRUE, value |-> [date |-> "today"]]
             ELSE [exception |-> FALSE,
                   value |-> [date |-> "today",
                              sections |-> [section \in Sections |->
                                  [i \in 1..Len(shown(section)) |->
                                      shown(section)[i].title]],
                              metadata |->
                                  [total_articles |-> Len(arts),
                                   sources |-> {arts[i].source : i \in 1..Len(arts)},
                                   categories |-> {arts[i].category : i \in 1..Len(arts)}]]]

(***************************************************************************)
(* The ledger file.                                                        *)
(***************************************************************************)
\* The ids a successful read of notion.json yields.
PersistedIds == IF fileState = "json" THEN fileIds ELSE {}

\* _load_synced_articles: [] when the file is absent, when opening or parsing
\* it raises (the exception is logged and swallowed), else its article_ids.
_load_synced_articles ==
    IF fileState = "absent" THEN {}
    ELSE IF storage = "unreadable" THEN {}
    ELSE IF fileState = "corrupt" THEN {}
    ELSE fileIds

(***************************************************************************)
(* sync_report                                                             *)
(***************************************************************************)
\* report.get('articles', [])
ReportArticlesOf(r) == IF "articles" \in DOMAIN r THEN r.articles ELSE <<>>

\* new_articles: the articles whose id is not in synced_ids, in order.
FilterNew(arts, synced_ids) ==
    LET keep(a) == a.id \notin synced_ids
    IN  SelectSeq(arts, keep)

\* _add_articles, the loop: _article_exists is asked once for each article
\* (answers[i] for the i-th); its query finds a page, finds none, or raises,
\* which is logged and answered False (lines 306-322).  An article is
\* skipped when its answer is True or when its summary is longer than 2000
\* characters.
RECURSIVE Added(_, _)
Added(arts, answers) ==
    IF arts = <<>> THEN <<>>
    ELSE (IF Head(answers) = "found" \/ Head(arts).summary_len > MaxSummary
          THEN <<>> ELSE <<Head(arts).id>>)
         \o Added(Tail(arts), Tail(answers))

NoPre == [fileState |-> "absent", fileIds |-> {}, pages |-> <<>>,
          articles |-> <<>>, repeat |-> FALSE]

NoLast == [ok |-> FALSE, articles |-> <<>>]

\* A task of fetch_news: not started, running, or done with its result.
NoTask == [status |-> "idle", outcome |-> "none",
           result |-> [exception |-> FALSE, value |-> <<>>]]

NoTasks == [k \in SourceKeys |-> NoTask]

ClearLocals ==
    /\ report' = [date |-> "today"]
    /\ new_articles' = <<>>
    /\ parent_id' = 0
    /\ added_articles' = <<>>
    /\ save_ids' = {}
    /\ all_ids' = {}
    /\ save_next' = "none"
    /\ pre' = NoPre
    /\ ledgerAtLoad' = {}
    /\ appended' = <<>>
    /\ remote' = {}
    /\ faults' = {}
    /\ tasks' = NoTasks
    /\ all_articles' = <<>>
    /\ articles' = <<>>
    /\ processed_articles' = <<>>

Persistent == <<fileState, fileIds, storage, pages>>

CycleVars == <<tasks, all_articles, articles, processed_articles>>

CallVars == <<args, result, attempts, clock>>

Init ==
    /\ pc = "loop"
    /\ mode = "run"
    /\ fileState = "absent"
    /\ fileIds = {}
    /\ storage = "ok"
    /\ pages = <<>>
    /\ report = [date |-> "today"]
    /\ new_articles = <<>>
    /\ parent_id = 0
    /\ added_articles = <<>>
    /\ save_ids = {}
    /\ all_ids = {}
    /\ save_next = "none"
    /\ ret = NoReturn
    /\ pre = NoPre
    /\ ledgerAtLoad = {}
    /\ appended = <<>>
    /\ remote = {}
    /\ faults = {}
    /\ tasks = NoTasks
    /\ all_articles = <<>>
    /\ articles = <<>>
    /\ processed_articles = <<>>
    /\ lastOK = NoLast
    /\ everPersisted = {}
    /\ args = <<>>
    /\ result = <<>>
    /\ attempts = <<>>
    /\ clock = 0

\* A caller hands a Report with articles to sync_report.
CallSyncReport ==
    /\ UNCHANGED CallVars
    /\ pc = "loop"
    /\ Len(pages) <= MaxPages
    /\ SumLen(pages) < MaxBlocks
    /\ \E as \in SeqsUpTo(ReportArticles, MaxReport) :
          /\ report' = [date |-> "today", articles |-> as]
          /\ pre' = [fileState |-> fileState, fileIds |-> PersistedIds,
                     pages |-> pages, articles |-> as,
                     repeat |-> (lastOK.ok /\ lastOK.articles = as)]
    /\ pc' = "sync_load"
    /\ mode' = "direct"
    /\ ret' = NoReturn
    /\ lastOK' = NoLast
    /\ UNCHANGED <<CycleVars, faults, everPersisted, Persistent, new_articles, parent_id, added_articles, save_ids,
                   all_ids, save_next, ledgerAtLoad, appended, remote>>

\* sync_report, lines 69-82: load the ledger, filter, return None when
\* nothing is new.
SyncLoad ==
    /\ UNCHANGED CallVars
    /\ pc = "sync_load"
    /\ ledgerAtLoad' = PersistedIds
    /\ LET synced_ids == _load_synced_articles
           new == FilterNew(ReportArticlesOf(report), synced_ids)
       IN  /\ new_articles' = new
           /\ IF new = <<>>
              THEN /\ ret' = None
                   /\ pc' = "sync_ret"
                   /\ report' = report
              ELSE /\ ret' = ret
                   /\ pc' = "sync_find"
                   /\ report' = [report EXCEPT !.articles = new]
    /\ UNCHANGED <<lastOK, everPersisted, CycleVars, faults, Persistent, mode, parent_id, added_articles, save_ids, all_ids,
                   save_next, pre, appended, remote>>

\* _find_today_page: results[0] of the query (any of today's pages: the query
\* states no order), None when there is no page or when the query raises.
QueryResults(outcome) ==
    IF outcome = "ok" THEN 1..Len(pages) ELSE {}

SyncFind ==
    /\ UNCHANGED CallVars
    /\ pc = "sync_find"
    /\ remote' = remote \cup {"query"}
    /\ \E outcome \in {"ok", "error"} :
          LET results == QueryResults(outcome)
          IN  /\ faults' = IF outcome = "ok" THEN faults ELSE faults \cup {"query"}
              /\ IF results = {}
                 THEN /\ parent_id' = 0
                      /\ pc' = "sync_create"
                 ELSE /\ \E p \in results : parent_id' = p
                      /\ pc' = "add_articles"
    /\ UNCHANGED <<lastOK, everPersisted, CycleVars, Persistent, mode, report, new_articles, added_articles,
                   save_ids, all_ids, save_next, ret, pre, ledgerAtLoad, appended>>

\* _create_report_page: pages.create, then pages.update for the cover; either
\* may raise, and a page created before a failed update stays.
SyncCreate ==
    /\ UNCHANGED CallVars
    /\ pc = "sync_create"
    /\ \E outcome \in {"ok", "create_error", "update_error"} :
          /\ remote' = remote \cup
                 (IF outcome = "create_error" THEN {"create"} ELSE {"create", "update"})
          /\ pages' = IF outcome = "create_error" THEN pages ELSE Append(pages, <<>>)
          /\ faults' = IF outcome = "ok" THEN faults ELSE faults \cup {outcome}
          /\ IF outcome = "ok"
             THEN /\ parent_id' = Len(pages) + 1
                  /\ pc' = "add_articles"
                  /\ ret' = ret
             ELSE /\ parent_id' = 0
                  /\ pc' = "sync_ret"
                  /\ ret' = Raised
    /\ UNCHANGED <<lastOK, everPersisted, CycleVars, fileState, fileIds, storage, mode, report, new_articles,
                   added_articles, save_ids, all_ids, save_next, pre, ledgerAtLoad,
                   appended>>

\* _add_articles, lines 216-292: build the blocks; _article_exists answers
\* for each article what the destination says at that moment (False when
\* its query raises).  With no blocks nothing is appended and sync_report
\* goes on to line 100.
AddArticles ==
    /\ UNCHANGED CallVars
    /\ pc = "add_articles"
    /\ remote' = remote \cup {"exists"}
    /\ \E answers \in [1..Len(new_articles) -> {"found", "none", "error"}] :
          LET added == Added(new_articles, answers)
          IN  /\ added_articles' = added
              /\ faults' = IF \E i \in 1..Len(answers) : answers[i] = "error"
                           THEN faults \cup {"exists"} ELSE faults
              /\ IF added # <<>>
                 THEN /\ pc' = "add_append"
                      /\ UNCHANGED <<save_ids, save_next>>
                 ELSE /\ pc' = "save_begin"
                      /\ save_ids' = IdsOf(new_articles)
                      /\ save_next' = "sync_ret"
    /\ UNCHANGED <<lastOK, everPersisted, CycleVars, Persistent, mode, report, new_articles, parent_id, all_ids,
                   ret, pre, ledgerAtLoad, appended>>

AddAppendRecordsFirst ==
    /\ UNCHANGED CallVars
    /\ pc = "add_append"
    /\ remote' = remote \cup {"append"}
    /\ \E outcome \in {"ok", "error"} :
          IF outcome = "ok"
          THEN /\ pages' = [pages EXCEPT ![parent_id] = @ \o added_articles]
               /\ appended' = appended \o added_articles
               /\ pc' = "save_begin"
               /\ save_ids' = Range(added_articles)
               /\ save_next' = "sync_save"
               /\ ret' = ret
               /\ faults' = faults
               /\ UNCHANGED <<fileState, fileIds>>
          ELSE /\ pc' = "sync_ret"
               /\ ret' = Raised
               /\ faults' = faults \cup {"append"}
               /\ fileState' = "json"
               /\ fileIds' = PersistedIds \cup Range(added_articles)
               /\ UNCHANGED <<pages, appended, save_ids, save_next>>
    /\ UNCHANGED <<lastOK, everPersisted, CycleVars, storage, mode, report, new_articles,
                   parent_id, added_articles, all_ids, pre, ledgerAtLoad>>

\* _add_articles, lines 294-300: blocks.children.append, then the ids of the
\* appended articles are saved; a failed append raises out of sync_report.
AddAppend ==
    /\ UNCHANGED CallVars
    /\ pc = "add_append"
    /\ remote' = remote \cup {"append"}
    /\ \E outcome \in {"ok", "error"} :
          IF outcome = "ok"
          THEN /\ pages' = [pages EXCEPT ![parent_id] = @ \o added_articles]
               /\ appended' = appended \o added_articles
               /\ pc' = "save_begin"
               /\ save_ids' = Range(added_articles)
               /\ save_next' = "sync_save"
               /\ ret' = ret
               /\ faults' = faults
          ELSE /\ pc' = "sync_ret"
               /\ ret' = Raised
               /\ faults' = faults \cup {"append"}
               /\ UNCHANGED <<pages, appended, save_ids, save_next>>
    /\ UNCHANGED <<lastOK, everPersisted, CycleVars, fileState, fileIds, storage, mode, report, new_articles,
                   parent_id, added_articles, all_ids, pre, ledgerAtLoad>>

\* Where _save_synced_articles goes when it is done: back into sync_report,
\* whose line 100 saves the ids of all the new articles, or to its return of
\* page_url.
SaveReturn ==
    IF save_next = "sync_save"
    THEN /\ pc' = "save_begin"
         /\ save_ids' = IdsOf(new_articles)
         /\ save_next' = "sync_ret"
         /\ ret' = ret
    ELSE /\ pc' = "sync_ret"
         /\ save_ids' = {}
         /\ save_next' = "none"
         /\ ret' = Url(parent_id)

\* _save_synced_articles, lines 48-52: read the existing ids, merge, open the
\* file for writing (which truncates it).  An exception is logged and
\* swallowed: the function returns normally.
SaveBegin ==
    /\ UNCHANGED CallVars
    /\ pc = "save_begin"
    /\ IF storage = "unwritable"
       THEN /\ SaveReturn
            /\ UNCHANGED <<fileState, fileIds, all_ids>>
       ELSE /\ all_ids' = _load_synced_articles \cup save_ids
            /\ fileState' = "corrupt"
            /\ fileIds' = {}
            /\ pc' = "save_dump"
            /\ UNCHANGED <<save_ids, save_next, ret>>
    /\ UNCHANGED <<lastOK, everPersisted, CycleVars, faults, storage, pages, mode, report, new_articles, parent_id,
                   added_articles, pre, ledgerAtLoad, appended, remote>>

\* _save_synced_articles, line 53: json.dump and close.  A failed write leaves
\* the truncated file and is swallowed too.
SaveDump ==
    /\ UNCHANGED CallVars
    /\ pc = "save_dump"
    /\ IF storage = "unwritable"
       THEN UNCHANGED <<fileState, fileIds, everPersisted>>
       ELSE /\ fileState' = "json"
            /\ fileIds' = all_ids
            /\ everPersisted' = everPersisted \cup all_ids
    /\ all_ids' = {}
    /\ SaveReturn
    /\ UNCHANGED <<lastOK, CycleVars, faults, storage, pages, mode, report, new_articles, parent_id,
                   added_articles, pre, ledgerAtLoad, appended, remote>>

\* sync_report has returned to (or raised into) the caller that handed it
\* the Report.
SyncReturn ==
    /\ UNCHANGED CallVars
    /\ pc = "sync_ret"
    /\ mode = "direct"
    /\ pc' = "loop"
    /\ mode' = "run"
    /\ lastOK' = IF ret = Raised THEN NoLast
                 ELSE [ok |-> TRUE, articles |-> pre.articles]
    /\ ClearLocals
    /\ UNCHANGED <<everPersisted, Persistent, ret>>

\* run, lines 60-65: sync_report has returned and run returns, or it raised
\* and the exception leaves run, run_scheduled and main: the process ends.
RunReturn ==
    /\ UNCHANGED CallVars
    /\ pc = "sync_ret"
    /\ mode = "run"
    /\ pc' = IF ret = Raised THEN "dead" ELSE "sleep"
    /\ UNCHANGED <<lastOK, everPersisted, Persistent, CycleVars, mode, report, new_articles, parent_id,
                   added_articles, save_ids, all_ids, save_next, ret, pre,
                   ledgerAtLoad, appended, remote, faults>>

RunStartWithoutSleep ==
    /\ UNCHANGED CallVars
    /\ pc \in {"loop", "sleep"}
    /\ pc' = "fetch"
    /\ mode' = "run"
    /\ ret' = NoReturn
    /\ tasks' = [k \in SourceKeys |-> [NoTask EXCEPT !.status = "running"]]
    /\ lastOK' = NoLast
    /\ UNCHANGED <<everPersisted, Persistent, all_articles, articles, processed_articles, report,
                   new_articles, parent_id, added_articles, save_ids, all_ids,
                   save_next, pre, ledgerAtLoad, appended, remote, faults>>

(***************************************************************************)
(* run and fetch_news                                                      *)
(***************************************************************************)
\* run_scheduled calls run, which calls fetch_news: one task per source.
RunStart ==
    /\ UNCHANGED CallVars
    /\ pc = "loop"
    /\ pc' = "fetch"
    /\ mode' = "run"
    /\ ret' = NoReturn
    /\ tasks' = [k \in SourceKeys |-> [NoTask EXCEPT !.status = "running"]]
    /\ lastOK' = NoLast
    /\ UNCHANGED <<everPersisted, Persistent, all_articles, articles, processed_articles, report,
                   new_articles, parent_id, added_articles, save_ids, all_ids,
                   save_next, pre, ledgerAtLoad, appended, remote, faults>>

\* The task of one source ends: _fetch_from_source returns.  There is a
\* parsed feed only when feedparser.parse has run (lines 127-131): the
\* request gave a body, and the parse went well or set bozo.
FetchComplete ==
    /\ UNCHANGED CallVars
    /\ pc = "fetch"
    /\ \E i \in 1..Len(Sources) :
          /\ tasks[Sources[i].key].status = "running"
          /\ \E outcome \in FetchOutcomes :
             \E feed \in (IF outcome \in {"ok", "bozo"} THEN Feeds ELSE {<<>>}) :
             \E nows \in [1..Len(feed) -> Nows] :
                tasks' = [tasks EXCEPT ![Sources[i].key] =
                    [status |-> "done",
                     outcome |-> outcome,
                     result |-> [exception |-> FALSE,
                                 value |-> _fetch_from_source(Sources[i], outcome,
                                                              feed, nows)]]]
    /\ UNCHANGED <<lastOK, everPersisted, Persistent, pc, mode, all_articles, articles,
                   processed_articles, report, new_articles, parent_id,
                   added_articles, save_ids, all_ids, save_next, ret, pre,
                   ledgerAtLoad, appended, remote, faults>>

JoinReadyOnFirst == \E k \in SourceKeys : tasks[k].status = "done"

\* asyncio.gather(*tasks, return_exceptions=True) returns when every task
\* is done.
JoinReady == \A k \in SourceKeys : tasks[k].status = "done"

\* fetch_news, lines 82-90, and run, lines 40-44: join, collect, deduplicate;
\* run returns when there is no article.
JoinWithoutEmptyCheck ==
    /\ UNCHANGED CallVars
    /\ pc = "fetch"
    /\ JoinReady
    /\ LET results == [i \in 1..Len(Sources) |-> tasks[Sources[i].key].result]
           all == Collect(results)
           unique == _deduplicate_articles(all)
       IN  /\ all_articles' = all
           /\ articles' = unique
           /\ pc' = "process"
    /\ UNCHANGED <<lastOK, everPersisted, Persistent, mode, tasks, processed_articles, report,
                   new_articles, parent_id, added_articles, save_ids, all_ids,
                   save_next, ret, pre, ledgerAtLoad, appended, remote, faults>>

Join ==
    /\ UNCHANGED CallVars
    /\ pc = "fetch"
    /\ JoinReady
    /\ LET results == [i \in 1..Len(Sources) |-> tasks[Sources[i].key].result]
           all == Collect(results)
           unique == _deduplicate_articles(all)
       IN  /\ all_articles' = all
           /\ articles' = unique
           /\ pc' = IF unique = <<>> THEN "sleep" ELSE "process"
    /\ UNCHANGED <<lastOK, everPersisted, Persistent, mode, tasks, processed_articles, report,
                   new_articles, parent_id, added_articles, save_ids, all_ids,
                   save_next, ret, pre, ledgerAtLoad, appended, remote, faults>>

\* run, line 48: process_articles, one summarization call per article.
Process ==
    /\ UNCHANGED CallVars
    /\ pc = "process"
    /\ \E responses \in [1..Len(articles) -> SummaryResponses] :
          /\ processed_articles' = process_articles(articles, responses)
          /\ faults' = IF \E i \in 1..Len(articles) : responses[i].exception
                       THEN faults \cup {"summary"} ELSE faults
    /\ pc' = "generate"
    /\ UNCHANGED <<lastOK, everPersisted, Persistent, mode, tasks, all_articles, articles, report,
                   new_articles, parent_id, added_articles, save_ids, all_ids,
                   save_next, ret, pre, ledgerAtLoad, appended, remote>>

\* run, lines 53-65: generate_report, then the call of sync_report with the
\* report.  An exception of generate_report is logged and raised again by
\* run (lines 63-65), by run_scheduled (lines 83-85) and by main (lines
\* 94-96): the process ends, and ret keeps that run raised.
Generate ==
    /\ UNCHANGED CallVars
    /\ pc = "generate"
    /\ \E saved \in SaveOutcomes :
          LET generated == generate_report(processed_articles, saved)
          IN  IF generated.exception
              THEN /\ pc' = "dead"
                   /\ ret' = Raised
                   /\ ClearLocals
              ELSE /\ pc' = "sync_load"
                   /\ report' = generated.value
                   /\ pre' = [fileState |-> fileState, fileIds |-> PersistedIds,
                              pages |-> pages,
                              articles |-> ReportArticlesOf(generated.value),
                              repeat |-> FALSE]
                   /\ UNCHANGED <<CycleVars, new_articles, parent_id,
                                  added_articles, save_ids, all_ids, save_next,
                                  ret, ledgerAtLoad, appended, remote, faults>>
    /\ UNCHANGED <<lastOK, everPersisted, Persistent, mode>>

\* The process is killed wherever it is; what is on disk and in the
\* destination stays.
Crash ==
    /\ UNCHANGED CallVars
    /\ pc # "dead"
    /\ pc' = "dead"
    /\ mode' = "run"
    /\ ret' = NoReturn
    /\ lastOK' = NoLast
    /\ ClearLocals
    /\ UNCHANGED <<everPersisted, Persistent>>

\* The process is started again: main, run_scheduled, AIReportGenerator().
Restart ==
    /\ UNCHANGED CallVars
    /\ pc = "dead"
    /\ pc' = "loop"
    /\ UNCHANGED <<lastOK, everPersisted, CycleVars, faults, Persistent, mode, report, new_articles, parent_id,
                   added_articles, save_ids, all_ids, save_next, ret, pre,
                   ledgerAtLoad, appended, remote>>

\* asyncio.sleep(interval) is over: the loop of run_scheduled goes round.
Wake ==
    /\ UNCHANGED CallVars
    /\ pc = "sleep"
    /\ pc' = "loop"
    /\ lastOK' = NoLast
    /\ ClearLocals
    /\ UNCHANGED <<everPersisted, Persistent, mode, ret>>

\* The environment changes what the process may do with notion.json
\* (permissions, a full disk).
EnvStorage ==
    /\ UNCHANGED CallVars
    /\ \E s \in {"ok", "unreadable", "unwritable"} :
          /\ s # storage
          /\ storage' = s
    /\ UNCHANGED <<lastOK, everPersisted, CycleVars, faults, pc, mode, fileState, fileIds, pages, report, new_articles,
                   parent_id, added_articles, save_ids, all_ids, save_next, ret,
                   pre, ledgerAtLoad, appended, remote>>

NextRestarts ==
    \/ CallSyncReport
    \/ SyncLoad
    \/ SyncFind
    \/ SyncCreate
    \/ AddArticles
    \/ AddAppend
    \/ SaveBegin
    \/ SaveDump
    \/ SyncReturn
    \/ RunStart
    \/ FetchComplete
    \/ Join
    \/ Process
    \/ Generate
    \/ RunReturn
    \/ Wake
    \/ Crash
    \/ Restart

Next ==
    \/ NextRestarts
    \/ EnvStorage

SpecRestarts == Init /\ [][NextRestarts]_vars

Spec == Init /\ [][Next]_vars

(***************************************************************************)
(* _deduplicate_articles on its own: every sequence of up to MaxDedup      *)
(* articles over three links and the empty link, two dates, and the two    *)
(* sources with their own casing of the title.                             *)
(***************************************************************************)
DedupArticles ==
    {[id |-> Md5(link), title |-> v.title, summary_len |-> 0, link |-> link,
      source |-> v.source, image_url |-> <<>>, published_date |-> date] :
        link \in {"", "u1", "u2", "u3"}, date \in {1, 2},
        v \in {[title |-> eGPT.title, source |-> "aibase"],
               [title |-> eGptLower.title, source |-> "techcrunch"]}}

InitDedup ==
    /\ pc = "dedup_in"
    /\ all_articles \in SeqsUpTo(DedupArticles, MaxDedup)
    /\ mode = "run"
    /\ fileState = "absent"
    /\ fileIds = {}
    /\ storage = "ok"
    /\ pages = <<>>
    /\ report = [date |-> "today"]
    /\ new_articles = <<>>
    /\ parent_id = 0
    /\ added_articles = <<>>
    /\ save_ids = {}
    /\ all_ids = {}
    /\ save_next = "none"
    /\ ret = NoReturn
    /\ pre = NoPre
    /\ ledgerAtLoad = {}
    /\ appended = <<>>
    /\ remote = {}
    /\ faults = {}
    /\ tasks = NoTasks
    /\ articles = <<>>
    /\ processed_articles = <<>>
    /\ lastOK = NoLast
    /\ everPersisted = {}
    /\ args = <<>>
    /\ result = <<>>
    /\ attempts = <<>>
    /\ clock = 0

Deduplicate ==
    /\ UNCHANGED CallVars
    /\ pc = "dedup_in"
    /\ articles' = _deduplicate_articles(all_articles)
    /\ pc' = "dedup_out"
    /\ UNCHANGED <<Persistent, mode, report, new_articles, parent_id,
                   added_articles, save_ids, all_ids, save_next, ret, pre,
                   ledgerAtLoad, appended, remote, faults, tasks, all_articles,
                   processed_articles, lastOK, everPersisted>>

\* _deduplicate_articles applied to its own output.
DeduplicateAgain ==
    /\ pc = "dedup_out"
    /\ result' = _deduplicate_articles(articles)
    /\ pc' = "dedup_again"
    /\ UNCHANGED <<Persistent, CycleVars, mode, report, new_articles, parent_id,
                   added_articles, save_ids, all_ids, save_next, ret, pre,
                   ledgerAtLoad, appended, remote, faults, lastOK,
                   everPersisted, args, attempts, clock>>

NextDedup == Deduplicate \/ DeduplicateAgain

SpecDedup == InitDedup /\ [][NextDedup]_vars

(***************************************************************************)
(* The claims.                                                             *)
(***************************************************************************)
\* sync_report is executing, or has just decided what it returns.
InSync == pc \in {"sync_load", "sync_find", "sync_create", "add_articles",
                  "add_append", "save_begin", "save_dump", "sync_ret"}

\* fetch_news has joined its tasks in this cycle.
Joined == pc # "fetch" /\ \E k \in SourceKeys : tasks[k].status # "idle"

OnSomePage(id) == \E p \in 1..Len(pages) : id \in Range(pages[p])

\* C1: when a cycle ends in which fetch_news returned n >= 1 articles, all
\* new to the ledger, and every remote call succeeded, all n articles are on
\* a page of the day and all n ids are in the persisted ledger.
C1_CyclePublishesNewArticles ==
    (/\ pc = "sleep"
     /\ articles # <<>>
     /\ faults = {}
     /\ IdsOf(articles) \cap pre.fileIds = {})
    => \A id \in IdsOf(articles) : OnSomePage(id) /\ id \in PersistedIds

\* C2: no article handed to blocks.children.append by sync_report has an id
\* that was in the persisted ledger, the content of notion.json, when that
\* call loaded it.
C2_NoSyncedArticleAppended ==
    (Range(appended) \cup (IF pc = "add_append" THEN Range(added_articles) ELSE {}))
        \cap ledgerAtLoad = {}

\* C3: a sync_report whose Report has no article outside the ledger, or
\* that repeats the Report of the call that has just returned normally,
\* creates no page, updates none, appends nothing and leaves pages and
\* ledger as they were (stated for the calls all of whose remote operations
\* answer normally).
C3_NoOpWhenNothingNew ==
    (/\ InSync
     /\ faults = {}
     /\ IdsOf(pre.articles) \subseteq pre.fileIds \/ pre.repeat)
    => /\ remote \cap {"create", "update", "append"} = {}
       /\ appended = <<>>
       /\ pages = pre.pages
       /\ fileState = pre.fileState
       /\ PersistedIds = pre.fileIds

\* C4: when nothing is new and a page of the day exists, sync_report returns
\* the URL of that page.
C4_ReturnsUrlOfExistingPage ==
    (pc = "sync_ret" /\ new_articles = <<>> /\ ret # Raised /\ pages # <<>>)
    => (ret.kind = "url" /\ ret.page \in 1..Len(pages))

\* C5: the ids a successful sync_report has added to the ledger are exactly
\* the ids of the articles it appended.
C5_RecordedExactlyAppended ==
    (pc = "sync_ret" /\ ret.kind = "url")
    => (PersistedIds \ pre.fileIds) = Range(appended)

\* C6: when _save_synced_articles(ids) has returned (here: the call of line
\* 100, after which sync_report returns the URL), every id of ids is in the
\* ledger a read yields.
C6_RecordedIdsAreInLedger ==
    (pc = "sync_ret" /\ ret.kind = "url")
    => IdsOf(new_articles) \subseteq PersistedIds

\* C7: an id that was once in the persisted ledger is in it whenever the
\* process is between two calls.
C7_LedgerAppendOnly ==
    pc = "loop" => everPersisted \subseteq PersistedIds

\* C8: after the join, no article comes from a source whose fetch failed, no
\* task has raised, run goes on, and every non-empty link a successful
\* source delivered is in the result, once.
C8_FailingSourcesIsolated ==
    Joined =>
       /\ pc \in {"process", "generate", "sync_load", "sync_ret", "sleep"}
       /\ \A k \in SourceKeys : ~tasks[k].result.exception
       /\ \A i \in 1..Len(articles) : tasks[articles[i].source].outcome = "ok"
       /\ \A i, j \in 1..Len(articles) :
             i # j => articles[i].link # articles[j].link
       /\ \A k \in SourceKeys : tasks[k].outcome = "ok" =>
             \A n \in 1..Len(tasks[k].result.value) :
                 tasks[k].result.value[n].link # "" =>
                     \E i \in 1..Len(articles) :
                         articles[i].link = tasks[k].result.value[n].link

\* One source failed and fetch_news returned the articles of the other.
C8_Witness ==
    /\ Joined
    /\ \E k \in SourceKeys : tasks[k].outcome \notin {"ok", "none"}
    /\ \E k \in SourceKeys : tasks[k].outcome = "ok" /\ tasks[k].result.value # <<>>
    /\ articles # <<>>

\* C9: fetch_news has a task for every source, and deduplicates only when
\* every task is done.
C9_JoinWaitsForEveryTask ==
    /\ pc = "fetch" => \A k \in SourceKeys : tasks[k].status \in {"running", "done"}
    /\ Joined => \A k \in SourceKeys : tasks[k].status = "done"

\* The first source failed, the second delivered, and run is past the join.
C9_Witness ==
    /\ pc = "process"
    /\ tasks[Sources[1].key].status = "done"
    /\ tasks[Sources[1].key].outcome = "network_error"
    /\ tasks[Sources[2].key].status = "done"
    /\ tasks[Sources[2].key].outcome = "ok"

\* C10: the output of _deduplicate_articles holds no link twice, each of its
\* articles is the first of the input with its link, and every non-empty
\* link of the input is in it.
C10_FirstSeenPerLink ==
    pc = "dedup_out" =>
       /\ \A i, j \in 1..Len(articles) :
             i # j => articles[i].link # articles[j].link
       /\ \A i \in 1..Len(articles) :
             \E n \in 1..Len(all_articles) :
                 /\ all_articles[n] = articles[i]
                 /\ \A m \in 1..(n - 1) : all_articles[m].link # articles[i].link
       /\ \A n \in 1..Len(all_articles) :
             all_articles[n].link # "" =>
                 \E i \in 1..Len(articles) : articles[i].link = all_articles[n].link

\* Two sources gave the same link with different title casing: one article,
\* the one observed first.
C10_Witness ==
    /\ pc = "dedup_out"
    /\ Len(all_articles) = 2
    /\ all_articles[1].link = all_articles[2].link
    /\ all_articles[1].link # ""
    /\ all_articles[1].title # all_articles[2].title
    /\ all_articles[1].source # all_articles[2].source
    /\ articles = <<all_articles[1]>>

(***************************************************************************)
(* Functions examined on their own start from a process that has done      *)
(* nothing yet and leave its state alone.                                  *)
(***************************************************************************)
MainVars == <<Persistent, CycleVars, mode, report, new_articles, parent_id,
              added_articles, save_ids, all_ids, save_next, ret, pre,
              ledgerAtLoad, appended, remote, faults, lastOK, everPersisted>>

MainIdle ==
    /\ mode = "run"
    /\ fileState = "absent"
    /\ fileIds = {}
    /\ storage = "ok"
    /\ pages = <<>>
    /\ report = [date |-> "today"]
    /\ new_articles = <<>>
    /\ parent_id = 0
    /\ added_articles = <<>>
    /\ save_ids = {}
    /\ all_ids = {}
    /\ save_next = "none"
    /\ ret = NoReturn
    /\ pre = NoPre
    /\ ledgerAtLoad = {}
    /\ appended = <<>>
    /\ remote = {}
    /\ faults = {}
    /\ tasks = NoTasks
    /\ all_articles = <<>>
    /\ articles = <<>>
    /\ processed_articles = <<>>
    /\ lastOK = NoLast
    /\ everPersisted = {}

(***************************************************************************)
(* _parse_feed_entry on its own: two calls, each with an entry, a source   *)
(* and the instant datetime.now gives, as in one run or in two.  The       *)
(* sources are the configured ones, a generic feed (type rss) and an       *)
(* rsshub feed under another name.                                         *)
(***************************************************************************)
ParseSources ==
    Sources \o
    << [key |-> "blog", name |-> "", type |-> "rss", keywords |-> {}],
       [key |-> "hub", name |-> "hub", type |-> "rsshub", keywords |-> {}] >>

ParseCalls ==
    [entry : {eGPT, eGptLower, eLLM, eCat, eAiNoImg, eNoLink},
     source : 1..Len(ParseSources), now : Nows]

InitParse ==
    /\ pc = "parse_in"
    /\ args \in [1..2 -> ParseCalls]
    /\ result = <<>>
    /\ attempts = <<>>
    /\ clock = 0
    /\ MainIdle

ParseEntries ==
    /\ pc = "parse_in"
    /\ result' = [i \in 1..2 |->
                     _parse_feed_entry(args[i].entry,
                                       ParseSources[args[i].source].key,
                                       ParseSources[args[i].source], args[i].now)]
    /\ pc' = "parse_out"
    /\ UNCHANGED <<MainVars, args, attempts, clock>>

NextParse == ParseEntries

SpecParse == InitParse /\ [][NextParse]_vars

(***************************************************************************)
(* _fetch_from_source on its own: one call with a source, the outcome of   *)
(* the request, the instant datetime.now gives and a feed.  The feeds are  *)
(* every sequence of up to MaxFeed entries, and feeds that repeat one      *)
(* entry about MaxPerSource times between other entries.                   *)
(***************************************************************************)
MaxFeed == 3

FetchEntries == {eGPT, eLLM, eCat, eAiNoImg, eNoLink, eBadTag}

Repeat(entry, n) == [i \in 1..n |-> entry]

LongFeeds ==
    {first \o Repeat(eGPT, n) \o last :
        first \in SeqsUpTo({eLLM, eBadTag}, 1),
        n \in (MaxPerSource - 1)..(MaxPerSource + 1),
        last \in SeqsUpTo({eLLM}, 1)}

\* The readings of the clock during one call, one per entry; no entry of a
\* long feed reads the clock (every date of it parses), so one reading
\* stands for all of them there.
Readings(feed) ==
    IF feed \in LongFeeds THEN {Repeat(now, Len(feed)) : now \in Nows}
    ELSE [1..Len(feed) -> Nows]

FetchCalls ==
    UNION {[feed : {feed}, source : 1..Len(ParseSources),
            outcome : FetchOutcomes, now : Readings(feed)] :
           feed \in SeqsUpTo(FetchEntries, MaxFeed) \cup LongFeeds}

InitFetch ==
    /\ pc = "fetch_call"
    /\ args \in FetchCalls
    /\ result = <<>>
    /\ attempts = <<>>
    /\ clock = 0
    /\ MainIdle

FetchFromSource ==
    /\ pc = "fetch_call"
    /\ result' = _fetch_from_source(ParseSources[args.source], args.outcome,
                                    args.feed, args.now)
    /\ pc' = "fetch_return"
    /\ UNCHANGED <<MainVars, args, attempts, clock>>

NextFetch == FetchFromSource

SpecFetch == InitFetch /\ [][NextFetch]_vars

\* What one entry of a feed gives on its own: nothing when its relevance
\* check raises or says no, else what _parse_feed_entry returns for it.
ArticleOf(entry, source_config, now) ==
    IF _is_ai_related(entry, source_config.keywords).exception THEN <<>>
    ELSE IF ~_is_ai_related(entry, source_config.keywords).value THEN <<>>
    ELSE _parse_feed_entry(entry, source_config.key, source_config, now)

\* The positions of the feed of the call whose entry gives an article.
Kept ==
    {j \in 1..Len(args.feed) :
        ArticleOf(args.feed[j], ParseSources[args.source], args.now[j]) # <<>>}

\* The place of position j among the positions that give an article.
Rank(j) == Cardinality({k \in Kept : k <= j})

(***************************************************************************)
(* _is_ai_related on its own: entries whose title, summary and tags hold   *)
(* or lack a configured keyword in another casing, or a keyword the        *)
(* function defines itself, and entries with a tag without term, under     *)
(* five configured keyword lists.                                          *)
(***************************************************************************)
tROBOT == <<"R", "O", "B", "O", "T">>

tRobot == <<"R", "o", "b", "o", "t">>

tDog == <<"D", "O", "G">>

tECOLE == <<"É", "C", "O", "L", "E">>

tEcole == <<"é", "c", "o", "l", "e">>

RelevanceEntries ==
    [title : {tROBOT, <<"c", "a", "t">>, <<"A", "p", "p", "l", "e">>,
              <<"r", "o", "b", "o", "t", "s">>, tECOLE, tEcole},
     summary : {<<>>, <<"r", "o", "b", "o", "t">>, <<"d", "o", "g">>},
     tags : {<<>>, <<tRobot>>, <<NoneTerm>>},
     link : {"u1"}, pubDate : {"d1"}, published : {""}]

RelevanceKeywords == {{}, {tRobot}, {tDog}, {tECOLE}, {tEcole}}

InitRelevance ==
    /\ pc = "relevance_in"
    /\ args \in [entry : RelevanceEntries, keywords : RelevanceKeywords]
    /\ result = <<>>
    /\ attempts = <<>>
    /\ clock = 0
    /\ MainIdle

\* The call returns its answer, or raises and returns nothing.
Relevance ==
    /\ pc = "relevance_in"
    /\ result' = IF _is_ai_related(args.entry, args.keywords).exception THEN <<>>
                 ELSE <<_is_ai_related(args.entry, args.keywords).value>>
    /\ pc' = "relevance_out"
    /\ UNCHANGED <<MainVars, args, attempts, clock>>

NextRelevance == Relevance

SpecRelevance == InitRelevance /\ [][NextRelevance]_vars

(***************************************************************************)
(* process_articles on its own, call by call: for each article of the      *)
(* batch _process_single_article makes one completion call, which takes    *)
(* time and answers or raises, then computes the relevance.                *)
(***************************************************************************)
\* The articles of a batch, as _parse_feed_entry makes them: what run hands
\* to process_articles is what fetch_news returned (main.py:40-48).
ProcessInputs ==
    {_parse_feed_entry(eGPT, Sources[1].key, Sources[1], 2)[1],
     _parse_feed_entry(eLLM, Sources[1].key, Sources[1], 2)[1],
     _parse_feed_entry(eGptLower, Sources[2].key, Sources[2], 3)[1]}

\* What a rate-limit error may carry: no wait, or a wait in seconds.
RetryAfter == {<<>>, <<65>>}

NoResponse == [exception |-> FALSE, len |-> 0]

InitProcess ==
    /\ pc = "summary_call"
    /\ args \in SeqsUpTo(ProcessInputs, MaxBatch)
    /\ result = [next |-> 1, processed |-> <<>>, returned |-> <<>>]
    /\ attempts = <<>>
    /\ clock = 0
    /\ MainIdle

\* _generate_summary, line 70: the completion call for the next article.
SummaryCall ==
    /\ pc = "summary_call"
    /\ result.next <= Len(args)
    /\ attempts' = Append(attempts, [article |-> result.next, started |-> clock,
                                     ended |-> clock, response |-> NoResponse,
                                     retry_after |-> <<>>, summary_len |-> 0])
    /\ pc' = "summary_wait"
    /\ UNCHANGED <<MainVars, args, result, clock>>

\* A second passes while the call is in flight.
Tick ==
    /\ pc = "summary_wait"
    /\ clock < MaxClock
    /\ clock' = clock + 1
    /\ UNCHANGED <<MainVars, pc, args, result, attempts>>

\* _generate_summary, lines 86-93, and _process_single_article, line 63:
\* the call answers or raises, the summary is set, the relevance is
\* computed, and process_articles (lines 38-42) keeps the article or, when
\* anything raised, leaves it out.
SummaryAnswer ==
    /\ pc = "summary_wait"
    /\ \E response \in SummaryResponses, wait \in RetryAfter :
          /\ ~response.exception => wait = <<>>
          /\ LET processed == _process_single_article(args[result.next], response)
             IN  /\ attempts' = [attempts EXCEPT ![Len(attempts)] =
                        [@ EXCEPT !.ended = clock, !.response = response,
                                  !.retry_after = wait,
                                  !.summary_len = _generate_summary(response)]]
                 /\ result' = [result EXCEPT
                        !.next = @ + 1,
                        !.processed = IF processed.exception THEN @
                                      ELSE Append(@, processed.value)]
    /\ pc' = "summary_call"
    /\ UNCHANGED <<MainVars, args, clock>>

\* process_articles, line 44: the loop is over.
ProcessReturn ==
    /\ pc = "summary_call"
    /\ result.next > Len(args)
    /\ result' = [result EXCEPT
                     !.returned = <<_sort_by_relevance(result.processed, <<>>)>>]
    /\ pc' = "process_out"
    /\ UNCHANGED <<MainVars, args, attempts, clock>>

NextProcess == SummaryCall \/ Tick \/ SummaryAnswer \/ ProcessReturn

SpecProcess == InitProcess /\ [][NextProcess]_vars

(***************************************************************************)
(* The construction of the application: Config reads the credentials from  *)
(* the environment and from config.yaml, validates them, and               *)
(* AIReportGenerator.__init__ builds the components; run_scheduled then    *)
(* starts the first cycle.  A value of the environment is unset, the empty *)
(* text or a text; a value of the file is a missing key, null, the empty   *)
(* text or a text.                                                         *)
(***************************************************************************)
Credentials == {"groq_api_key", "api_key", "database_id"}

EnvValues == {"unset", "empty", "text"}

FileValues == {"nokey", "null", "empty", "text"}

\* _get_default_config, lines 92, 106, 107: os.getenv(NAME, '').
_get_default_config(env) ==
    [c \in Credentials |-> IF env[c] = "text" THEN "text" ELSE "empty"]

\* _merge_configs: a key of the file replaces the default, null included.
_merge_configs(base, override) ==
    [c \in Credentials |-> IF override[c] = "nokey" THEN base[c] ELSE override[c]]

\* _override_from_env: a non-empty value of the environment wins.
_override_from_env(config, env) ==
    [c \in Credentials |-> IF env[c] = "text" THEN "text" ELSE config[c]]

_load_config(env, file) ==
    _override_from_env(_merge_configs(_get_default_config(env), file), env)

\* not value: None and '' are both false.
Missing(value) == value # "text"

\* _validate_config: the missing credentials are named in a warning; nothing
\* is raised.
_validate_config(config) == {c \in Credentials : Missing(config[c])}

\* ContentProcessor.__init__: Groq(api_key=config['groq_api_key']).  The
\* client falls back on the variable GROQ_API_KEY when it is given None and
\* raises when that is unset too; an empty text is accepted.
ContentProcessorInit(config, env) ==
    IF config["groq_api_key"] = "null" /\ env["groq_api_key"] = "unset"
    THEN "raised" ELSE "ok"

\* NotionSync.__init__, lines 23-31: ValueError without api_key or
\* database_id.
NotionSyncInit(config) ==
    IF Missing(config["api_key"]) THEN "raised"
    ELSE IF Missing(config["database_id"]) THEN "raised"
    ELSE "ok"

NoConfig == [c \in Credentials |-> "empty"]

InitStartup ==
    /\ pc = "config"
    /\ args \in [env : [Credentials -> EnvValues],
                  file : [Credentials -> FileValues]]
    /\ result = [config |-> NoConfig, warned |-> {}]
    /\ attempts = <<>>
    /\ clock = 0
    /\ MainIdle

\* Config.__init__, lines 31-32: load and validate.
LoadConfig ==
    /\ pc = "config"
    /\ LET config == _load_config(args.env, args.file)
       IN  result' = [config |-> config, warned |-> _validate_config(config)]
    /\ pc' = "components"
    /\ UNCHANGED <<MainVars, args, attempts, clock>>

\* AIReportGenerator.__init__, lines 27-30: the components are built in
\* order; an exception leaves run_scheduled and main, and the process ends.
Construct ==
    /\ pc = "components"
    /\ pc' = IF ContentProcessorInit(result.config, args.env) = "raised" THEN "dead"
             ELSE IF NotionSyncInit(result.config) = "raised" THEN "dead"
             ELSE "loop"
    /\ UNCHANGED <<MainVars, args, result, attempts, clock>>

NextStartup == LoadConfig \/ Construct \/ RunStart

SpecStartup == InitStartup /\ [][NextStartup]_vars

\* The place of the first article with this link in a sequence.
FirstIndex(arts, link) ==
    CHOOSE n \in 1..Len(arts) :
        arts[n].link = link /\ \A m \in 1..(n - 1) : arts[m].link # link

\* C11: the output of _deduplicate_articles is in descending order of
\* published date, and two of its articles with the same date are in the
\* order in which their links first came in the input.
C11_NewestFirstStable ==
    pc = "dedup_out" =>
       \A i, j \in 1..Len(articles) :
          i < j =>
             /\ articles[i].published_date >= articles[j].published_date
             /\ articles[i].published_date = articles[j].published_date
                   => FirstIndex(all_articles, articles[i].link)
                        < FirstIndex(all_articles, articles[j].link)

\* The newest article came last in the input and is first in the output,
\* ahead of two articles of one date that keep their input order.
C11_Witness ==
    /\ pc = "dedup_out"
    /\ Len(all_articles) = 3
    /\ Len(articles) = 3
    /\ articles[1] = all_articles[3]
    /\ articles[2] = all_articles[1]
    /\ articles[3] = all_articles[2]
    /\ articles[1].published_date > articles[2].published_date
    /\ articles[2].published_date = articles[3].published_date

\* C12: _deduplicate_articles applied to its own output returns that output,
\* the same articles in the same order.
C12_Idempotent ==
    pc = "dedup_again" => result = articles

\* The first application dropped a repeated link and reordered the rest,
\* which hold two articles of one date; the second has been applied.
C12_Witness ==
    /\ pc = "dedup_again"
    /\ Len(all_articles) = 3
    /\ Len(articles) = 2
    /\ articles[1].published_date = articles[2].published_date
    /\ articles # SubSeq(all_articles, 1, 2)
    /\ result = articles

\* C13: two articles made by _parse_feed_entry from entries with the same
\* link have the same id, whatever their sources, titles and instants.
C13_SameLinkSameId ==
    pc = "parse_out" =>
       \A i, j \in 1..2 :
          (/\ result[i] # <<>>
           /\ result[j] # <<>>
           /\ result[i][1].link = result[j][1].link)
          => result[i][1].id = result[j][1].id

\* Two sources gave the same link under different titles, parsed at
\* different instants into articles with different dates and one id.
C13_Witness ==
    /\ pc = "parse_out"
    /\ result[1] # <<>>
    /\ result[2] # <<>>
    /\ result[1][1].link = result[2][1].link
    /\ result[1][1].source # result[2][1].source
    /\ result[1][1].title # result[2][1].title
    /\ result[1][1].published_date # result[2][1].published_date
    /\ args[1].now # args[2].now
    /\ result[1][1].id = result[2][1].id

\* keyword occurs in text, compared without regard to case.
OccursIn(keyword, text) == Contains(Lower(keyword), Lower(text))

\* The text _is_ai_related searches: title, summary and tag terms, joined
\* by single spaces.
SearchedText(entry) ==
    entry.title \o <<" ">> \o entry.summary \o <<" ">> \o JoinSpace(entry.tags)

BuiltInKeywords ==
    ai_model_keywords \cup tech_company_keywords \cup ai_tech_keywords

\* C14: an entry whose title holds a configured keyword of the source, in
\* whatever casing, is accepted by _is_ai_related, whatever its summary and
\* its tags are.  Two characters are the same letter when they are equal or
\* are the capital and the small form of one letter.
C14_ConfiguredKeywordInTitleAccepted ==
    LET capitals == <<"A", "B", "C", "D", "E", "F", "G", "H", "I", "J", "K", "L", "M",
                      "N", "O", "P", "Q", "R", "S", "T", "U", "V", "W", "X", "Y", "Z",
                      "É">>
        smalls == <<"a", "b", "c", "d", "e", "f", "g", "h", "i", "j", "k", "l", "m",
                    "n", "o", "p", "q", "r", "s", "t", "u", "v", "w", "x", "y", "z",
                    "é">>
        same(a, b) == \/ a = b
                      \/ \E i \in 1..Len(capitals) : {a, b} = {capitals[i], smalls[i]}
        occurs(k, t) == \E i \in 0..(Len(t) - Len(k)) :
                           \A j \in 1..Len(k) : same(k[j], t[i + j])
    IN  (/\ pc = "relevance_out"
         /\ \E k \in args.keywords : occurs(k, args.entry.title))
        => result = <<TRUE>>

\* C15 as claimed: an entry in whose title, summary and tags no configured
\* keyword of the source occurs is rejected by _is_ai_related (it is not
\* accepted: the call answers False or raises).
C15_NoConfiguredKeywordRejected ==
    (/\ pc = "relevance_out"
     /\ \A k \in args.keywords : ~OccursIn(k, SearchedText(args.entry)))
    => result # <<TRUE>>

\* C15 as amended: an entry is rejected when neither a configured keyword of
\* the source nor a keyword of the three sets the function defines itself
\* occurs in its title, summary and tag terms joined by spaces.
C15_NoKeywordRejected ==
    (/\ pc = "relevance_out"
     /\ \A k \in args.keywords \cup BuiltInKeywords :
            ~OccursIn(k, SearchedText(args.entry)))
    => result # <<TRUE>>

\* An entry with a title, a summary and a tag, none of which holds the
\* configured keyword, has been rejected.
C15_Witness ==
    /\ pc = "relevance_out"
    /\ args.keywords = {tDog}
    /\ args.entry.title = <<"c", "a", "t">>
    /\ args.entry.summary # <<>>
    /\ args.entry.tags = <<tRobot>>
    /\ result = <<FALSE>>

\* The completion calls made for the article at place i of the batch.
AttemptsFor(i) == SelectSeq(attempts, LAMBDA a : a.article = i)

\* C16: process_articles returns every article of its input, and an article
\* whose completion call raised is returned with an empty summary.
C16_EveryArticleReturned ==
    pc = "process_out" =>
       /\ Len(result.returned[1]) = Len(args)
       /\ \A i \in 1..Len(args) :
             \E j \in 1..Len(result.returned[1]) :
                /\ result.returned[1][j].id = args[i].id
                /\ (\E k \in 1..Len(attempts) :
                       attempts[k].article = i /\ attempts[k].response.exception)
                   => result.returned[1][j].summary_len = 0

\* C17: for each article there are at most 3 completion calls, and a call
\* that raised and is not the third is followed by another call.
C17_ThreeAttempts ==
    pc = "process_out" =>
       \A i \in 1..Len(args) :
          /\ Len(AttemptsFor(i)) <= 3
          /\ \A k \in 1..Len(AttemptsFor(i)) :
                (AttemptsFor(i)[k].response.exception /\ k < 3)
                => k < Len(AttemptsFor(i))

\* C18: a call that raised and is not the third is followed by a call for
\* the same article that starts no earlier than the wait the error carried
\* or, when it carried none, 5, 10, 20 seconds after the failure.
C18_WaitsBeforeNextAttempt ==
    pc = "process_out" =>
       \A i \in 1..Len(args) :
          \A k \in 1..Len(AttemptsFor(i)) :
             (AttemptsFor(i)[k].response.exception /\ k < 3)
             => /\ k < Len(AttemptsFor(i))
                /\ AttemptsFor(i)[k + 1].started >=
                      AttemptsFor(i)[k].ended +
                      (IF AttemptsFor(i)[k].retry_after # <<>>
                       THEN AttemptsFor(i)[k].retry_after[1]
                       ELSE 5 * 2 ^ (k - 1))

\* C19: whatever the completion call answered, the summary the processor
\* puts into the article has at most MaxSummary characters.
C19_SummaryBounded ==
    pc = "process_out" =>
       \A k \in 1..Len(attempts) : attempts[k].summary_len <= MaxSummary

\* The steps of a cycle: run is executing.
InCycle == mode = "run" /\ pc \notin {"loop", "sleep", "dead"}

\* C20: a cycle starts only when no cycle is running and the scheduler is
\* not sleeping, and once a cycle is over the scheduler is back at the top
\* of its loop only after the sleep of the interval (or, the process having
\* ended, after a restart).
C20_CyclesDoNotOverlap ==
    [][/\ (pc' = "fetch" /\ pc # "fetch") => (pc = "loop" /\ ~InCycle)
       /\ (InCycle /\ ~InCycle') => pc' \in {"sleep", "dead"}
       /\ (pc = "sleep" /\ pc' # "sleep") => pc' \in {"loop", "dead"}]_vars

\* A cycle that fetched articles is over and run_scheduled sleeps.
C20_Witness ==
    /\ pc = "sleep"
    /\ mode = "run"
    /\ articles # <<>>
    /\ \A k \in SourceKeys : tasks[k].status = "done"
    /\ ret = None

\* C21: the process never ends because an operation of a cycle raised: an
\* error met while fetching, normalizing, summarizing, writing or publishing
\* is logged and run_scheduled goes on to the sleep and to the next cycle.
C21_CycleErrorsDoNotEndProcess ==
    ~(pc = "dead" /\ ret = Raised)

\* C22: the application is constructed, and a cycle is started, only with
\* all three credentials present: when the summarizer key, the Notion key
\* or the database id is missing, construction raises.
C22_MissingCredentialStopsStartup ==
    pc \in {"loop", "fetch"} =>
       \A c \in Credentials : ~Missing(result.config[c])

\* C23: the content blocks a cycle appends list the new articles, those of
\* the list fetch_news returned whose id the ledger did not hold, in the
\* order of that list, the Deduplicator's: when the sync_report of a cycle
\* with two or more new articles has returned and no operation of the cycle
\* has failed, the appended blocks are these articles, in that order.
C23_BlocksInDedupOrder ==
    (/\ pc = "sync_ret"
     /\ mode = "run"
     /\ ret # Raised
     /\ faults = {}
     /\ Len(FilterNew(articles, ledgerAtLoad)) >= 2)
    => appended = IdSeq(FilterNew(articles, ledgerAtLoad))

\* C24: the destination never holds more than one page of the day, however
\* many calls of sync_report there were and whatever their page lookups
\* answered.
C24_AtMostOnePagePerDay ==
    Len(pages) <= 1

\* The remote operations whose failure sync_report raises again.
PublishFaults == {"create_error", "update_error", "append"}

\* C25: when the page creation or the block append of a sync_report has
\* failed, the call raises, the ledger is as it was when the call began, and
\* a call with the same Report would submit the same new articles again.
C25_FailedPublishRecordsNothing ==
    (InSync /\ faults \cap PublishFaults # {}) =>
       /\ pc = "sync_ret"
       /\ ret = Raised
       /\ fileState = pre.fileState
       /\ PersistedIds = pre.fileIds
       /\ new_articles # <<>>
       /\ FilterNew(pre.articles, _load_synced_articles) = new_articles

\* The append of a call has failed whose Report held an article already in
\* the ledger and a new one, on a page that exists.
C25_Witness ==
    /\ pc = "sync_ret"
    /\ ret = Raised
    /\ "append" \in faults
    /\ pre.fileIds # {}
    /\ Len(new_articles) < Len(pre.articles)
    /\ added_articles # <<>>
    /\ pages # <<>>

\* How many block groups of the destination belong to this id.
Occurrences(ps, id) ==
    Cardinality({pi \in (1..Len(ps)) \X (1..SumLen(ps)) :
                    pi[2] <= Len(ps[pi[1]]) /\ ps[pi[1]][pi[2]] = id})

\* C26: once the id of an appended article has been recorded in the ledger,
\* no step appends that article again.
C26_NoDuplicateOnceRecorded ==
    [][\A id \in Ids :
          (id \in everPersisted /\ OnSomePage(id))
          => Occurrences(pages', id) = Occurrences(pages, id)]_vars

\* C27: the answer of _is_ai_related, when it gives one, is the answer of
\* the search of the joined text alone: true exactly when a configured or built-in keyword
\* occurs in title, summary and tag terms joined by spaces.
C27_ShortCircuitChangesNothing ==
    (pc = "relevance_out" /\ result # <<>>) =>
       result[1] = (\E k \in args.keywords \cup BuiltInKeywords :
                       OccursIn(k, SearchedText(args.entry)))

\* The title holds no keyword, so the short-circuit is not taken, and the
\* entry is accepted for the configured keyword in its summary.
C27_Witness ==
    /\ pc = "relevance_out"
    /\ args.keywords = {tRobot}
    /\ \A k \in args.keywords \cup BuiltInKeywords : ~OccursIn(k, args.entry.title)
    /\ OccursIn(tRobot, args.entry.summary)
    /\ args.entry.tags = <<>>
    /\ result = <<TRUE>>

\* C28: for an entry without a link _parse_feed_entry returns None.
C28_NoLinkGivesNone ==
    pc = "parse_out" =>
       \A i \in 1..2 : args[i].entry.link = "" => result[i] = <<>>

\* C29: for an entry with a link _parse_feed_entry returns an article,
\* whatever the type and the name of the source and whether or not the
\* summary of the entry holds an image.
C29_LinkGivesArticle ==
    pc = "parse_out" =>
       \A i \in 1..2 : args[i].entry.link # "" => result[i] # <<>>

\* C30: no article that fetch_news returns, and none that is handed on to
\* the report and the publisher, has an empty link.
C30_NoEmptyLinkFetched ==
    /\ \A i \in 1..Len(articles) : articles[i].link # ""
    /\ \A i \in 1..Len(processed_articles) : processed_articles[i].link # ""

\* A source delivered an article without link, made by _parse_feed_entry,
\* next to one with a link, and fetch_news returned only the latter.
C30_Witness ==
    /\ Joined
    /\ \E n \in 1..Len(all_articles) : all_articles[n].link = ""
    /\ articles # <<>>
    /\ Len(articles) < Len(all_articles)

\* C31: an entry of a feed whose relevance check raises, or whose
\* normalization gives None, is dropped alone: the fetch of the source
\* returns exactly the articles of the other entries, those after the
\* dropped entry included, in the order of the feed (feeds with at most
\* MaxPerSource entries that give an article).
C31_BadEntryDroppedAlone ==
    (pc = "fetch_return" /\ args.outcome = "ok"
        /\ Cardinality(Kept) <= MaxPerSource)
    => /\ Len(result) = Cardinality(Kept)
       /\ \A j \in Kept :
              result[Rank(j)]
                = ArticleOf(args.feed[j], ParseSources[args.source],
                            args.now[j])[1]

\* A feed whose first entry makes the relevance check raise, whose second
\* is related and normalizes to None, and whose third gives an article:
\* the fetch returned that article.
C31_Witness ==
    /\ pc = "fetch_return"
    /\ args.outcome = "ok"
    /\ Len(args.feed) = 3
    /\ _is_ai_related(args.feed[1], ParseSources[args.source].keywords).exception
    /\ ~_is_ai_related(args.feed[2], ParseSources[args.source].keywords).exception
    /\ _is_ai_related(args.feed[2], ParseSources[args.source].keywords).value
    /\ _parse_feed_entry(args.feed[2], ParseSources[args.source].key,
                         ParseSources[args.source], args.now[2]) = <<>>
    /\ Kept = {3}
    /\ Len(result) = 1
    /\ result[1].link = args.feed[3].link

\* C32: _fetch_from_source returns at most MaxPerSource (50) articles: the
\* result is the articles of the first 50 entries that give one, in feed
\* order, and no entry after the 50th of them adds anything.
C32_AtMostFiftyPerSource ==
    pc = "fetch_return"
    => /\ Len(result) <= MaxPerSource
       /\ args.outcome = "ok"
          => LET first == {j \in Kept : Rank(j) <= MaxPerSource}
             IN  /\ Len(result) = Cardinality(first)
                 /\ \A j \in first :
                        result[Rank(j)]
                          = ArticleOf(args.feed[j], ParseSources[args.source],
                                      args.now[j])[1]

\* A feed with more than 50 entries that give an article, the last of them
\* with another link than the 50th: the fetch returned 50 articles and the
\* last entry's article is not among them.
C32_Witness ==
    /\ pc = "fetch_return"
    /\ args.outcome = "ok"
    /\ Cardinality(Kept) > MaxPerSource
    /\ Len(args.feed) \in Kept
    /\ Len(result) = MaxPerSource
    /\ \A n \in 1..Len(result) : result[n].link # args.feed[Len(args.feed)].link

\* C33: when fetch_news returns no articles the cycle ends at once: the
\* step that ends the fetch goes to the sleep of run_scheduled and leaves
\* the ledger, the destination and the report alone with nothing processed
\* and no remote call made; run is never in process_articles,
\* generate_report or sync_report with an empty list from fetch_news; and
\* the sleep after an empty fetch ends with the ledger and the destination
\* as they were.
C33_EmptyFetchEndsCycle ==
    [][/\ (pc = "fetch" /\ pc' \notin {"fetch", "dead"} /\ articles' = <<>>)
          => /\ pc' = "sleep"
             /\ UNCHANGED <<Persistent, processed_articles, report, pre,
                            remote, appended, ret>>
       /\ (mode' = "run" /\ (pc' \in {"process", "generate"} \/ InSync'))
          => articles' # <<>>
       /\ (pc = "sleep" /\ articles = <<>> /\ pc' # "sleep")
          => /\ pc' \in {"loop", "dead"}
             /\ UNCHANGED Persistent]_vars

\* fetch_news has returned no articles, although a source delivered one
\* (without link), with a page in the destination and ids in the ledger:
\* run is in the sleep of run_scheduled, nothing processed, no report, no
\* remote call.
C33_Witness ==
    /\ pc = "sleep"
    /\ mode = "run"
    /\ Joined
    /\ all_articles # <<>>
    /\ articles = <<>>
    /\ processed_articles = <<>>
    /\ remote = {}
    /\ pre = NoPre
    /\ pages # <<>>
    /\ PersistedIds # {}

====
